---------------------------- MODULE Spec2Model ----------------------------
(***************************************************************************)
(* A model of gdb_to_spatialite.py: the code normalizer, the domain        *)
(* catalog parser, the metadata extractor with its caches, the metadata    *)
(* applier (overlay tables of the destination) and the conversion          *)
(* orchestrator.  Each component has its own specification; the variables  *)
(* of the other components stay at their idle values.                      *)
(***************************************************************************)
EXTENDS Integers, Sequences, FiniteSets, TLC

VARIABLES
    \* ---- code normalizer (GDBMetadataExtractor._convert_code_to_int)
    hash_seed,      \* the per-process salt of Python's str hash
    code_strs,      \* the code texts handed to the normalizer, in call order
    codes,          \* the integers it returned so far
    branches,       \* which return statement produced each of them
    \* ---- domain catalog parser (GDBMetadataExtractor._parse_domains_from_xml)
    xml_blocks,     \* the domain blocks the text was written from
    xml_content,    \* the text handed to the parser, as its sequence of elements
    all_domains,    \* the catalog it returned
    parse_pc,       \* "start" before the call, "done" after it
    \* ---- metadata applier (SpatialiteMetadataApplier) and the destination
    db,             \* the destination: its tables, overlay rows, indexes, triggers
    ext_loading,    \* whether this build's sqlite3 has enable_load_extension
    db_busy,        \* whether another connection holds the destination's lock
    last_apply,     \* the last apply_all_metadata call and what it returned
    \* ---- metadata extractor (GDBMetadataExtractor): catalog caches, waterfall
    gdb,            \* the container directory: whether it is one, its .gdbtable files
    gdal,           \* what this build's field definitions offer (hasattr tests)
    catalog_cache,  \* _catalog_cache: name of the catalog file found, "" for None
    domains_cache,  \* _domains_cache: [loaded, value], loaded FALSE for None
    dir_scans,      \* directory listings made so far
    file_reads,     \* files opened for reading so far
    load_returns,   \* what each _load_domains_from_catalog call returned and had cost
    extract_result, \* the last extract_domain_values call
    \* ---- conversion run (main, GDBToSpatialiteConverter.convert)
    args,           \* the command line: layer count, workers, overwrite, path, ...
    build,          \* the installation: ogr2ogr on the PATH, ogr raising exceptions
    dest,           \* the destination file: "none", "old" (from before), "new"
    run_pc,         \* where the run stands
    max_workers,    \* the worker count in effect
    layer_state,    \* per layer: "waiting", "running", "exited", "done"
    return_codes,   \* per layer: the exit code of its subprocess
    started,        \* the layers started so far, in start order
    success_count,  \* layers counted as converted
    failed_layers,  \* layers recorded as failed
    meta_results,   \* the results of _post_process_metadata so far
    exit_code,      \* the exit code of the process, once run_pc = "exited"
    dest_handles,   \* handles on the destination: held now, most held at once
    commands,       \* the ogr2ogr invocations so far: layer, mode, destination then
    \* one supervised subprocess (ProcessMonitor); times are in milliseconds
    process,        \* Popen object: running or not, and its returncode
    script,         \* the lines the subprocess has still to write
    written,        \* the lines the subprocess has written, in order
    stdout,         \* lines in the pipe, not yet read
    decoded,        \* lines the text layer has decoded, not yet iterated
    reader_pc,      \* where _read_output stands
    line,           \* the stripped line _read_output is about to append
    output_lock,    \* who holds self.output_lock
    output_lines,   \* self.output_lines
    reading_done,   \* self.reading_done is set
    mon_pc,         \* where wait_for_completion stands
    sleep_latency,  \* by how much time.sleep oversleeps on this machine
    polls,          \* turns of the polling loop so far
    current_time,   \* the last clock reading of the loop, start_time being 0
    poll_interval,
    stable_count,
    last_output_count,
    last_output_time,
    last_status_time,
    stall_log,      \* the times at which the stall message was logged
    wait_result,    \* what reading_done.wait returned
    mon_return,     \* what wait_for_completion returned
    \* one call of _convert_layer_with_ogr2ogr
    monitored,      \* what Popen and the monitor came to
    layer_result,   \* the tuple the call returned, or that it raised
    \* one call of extract_primary_keys
    key_layer,      \* what GDAL answers for the layer name
    extracted_keys  \* the list the call returned

normVars == <<hash_seed, code_strs, codes, branches>>
parseVars == <<xml_blocks, xml_content, all_domains, parse_pc>>

storeVars == <<db, ext_loading, db_busy, last_apply>>

extractVars ==
    <<gdb, gdal, catalog_cache, domains_cache, dir_scans, file_reads,
      load_returns, extract_result>>

runVars ==
    <<args, build, dest, run_pc, max_workers, layer_state, return_codes, started,
      success_count, failed_layers, meta_results, exit_code, dest_handles, commands>>

readerVars ==
    <<stdout, decoded, reader_pc, line, output_lock, output_lines, reading_done>>

pollVars ==
    <<mon_pc, sleep_latency, polls, current_time, poll_interval, stable_count,
      last_output_count, last_output_time, last_status_time, stall_log, wait_result,
      mon_return>>

monVars == <<process, script, written, readerVars, pollVars>>

layerVars == <<monitored, layer_result>>

keyVars == <<key_layer, extracted_keys>>

vars ==
    <<normVars, parseVars, storeVars, extractVars, runVars, monVars, layerVars, keyVars>>

(***************************************************************************)
(* Bounds                                                                  *)
(***************************************************************************)
MaxCodeLen == 2      \* longest code text handed to the normalizer
MaxSeed == 1         \* hash salts 0..MaxSeed
MaxBlocks == 2       \* most domain blocks in a parsed text
MaxLoads == 3        \* most calls of the catalog loader
MaxLayers == 2       \* most layers in a run
MaxWorkers == 2      \* most workers asked for
MaxPolls == 37       \* most turns of the polling loop while the subprocess runs
MaxTime == 130000    \* the polling loop is followed up to this time (ms)
LongSleep == 61000   \* a sleep that returns this late (ms)
MaxCaptured == 12    \* most lines captured from one subprocess

(***************************************************************************)
(* Text is a sequence of code points.                                      *)
(*   1 = U+0001, 32 = ' ', 45 = '-', 49 = '1', 65 = 'A'                    *)
(***************************************************************************)
Chars == {1, 32, 45, 49, 65}

RECURSIVE StringsUpTo(_)
StringsUpTo(n) ==
    IF n = 0 THEN {<<>>}
    ELSE LET shorter == StringsUpTo(n - 1)
         IN  shorter \cup {Append(s, c) : s \in {t \in shorter : Len(t) = n - 1}, c \in Chars}

CodeStrings == StringsUpTo(MaxCodeLen)

\* str.isspace() for the code points below 256
IsSpace(c) == c \in {9, 10, 11, 12, 13, 28, 29, 30, 31, 32, 133, 160}

\* the decimal digits '0'..'9' (int() also takes the other Unicode decimal
\* digits; none is in Chars)
IsDigit(c) == c \in 48..57

RECURSIVE LStrip(_)
LStrip(s) == IF s # <<>> /\ IsSpace(Head(s)) THEN LStrip(Tail(s)) ELSE s

RECURSIVE RStrip(_)
RStrip(s) ==
    IF s # <<>> /\ IsSpace(s[Len(s)]) THEN RStrip(SubSeq(s, 1, Len(s) - 1)) ELSE s

\* str.strip()
Strip(s) == RStrip(LStrip(s))

\* int(s) of a str: surrounding white space, one optional sign, then decimal
\* digits with single underscores between digits
IntBody(s) ==
    LET t == Strip(s)
    IN  IF t # <<>> /\ t[1] \in {43, 45} THEN Tail(t) ELSE t

IntNegative(s) ==
    LET t == Strip(s) IN t # <<>> /\ t[1] = 45

\* int(s) does not raise ValueError
IntParses(s) ==
    LET b == IntBody(s)
    IN  /\ b # <<>>
        /\ IsDigit(b[1])
        /\ IsDigit(b[Len(b)])
        /\ \A i \in 1..Len(b) : IsDigit(b[i]) \/ b[i] = 95
        /\ \A i \in 1..(Len(b) - 1) : ~(b[i] = 95 /\ b[i + 1] = 95)

RECURSIVE DigitsValue(_)
DigitsValue(b) ==
    IF b = <<>> THEN 0
    ELSE LET front == SubSeq(b, 1, Len(b) - 1)
             c == b[Len(b)]
         IN  IF c = 95 THEN DigitsValue(front) ELSE 10 * DigitsValue(front) + (c - 48)

\* the value of int(s), for s with IntParses(s)
IntValue(s) ==
    IF IntNegative(s) THEN 0 - DigitsValue(IntBody(s)) ELSE DigitsValue(IntBody(s))

Abs(x) == IF x < 0 THEN 0 - x ELSE x

\* hash(s) of a str: a signed value fixed by the text and the process's salt,
\* 0 for the empty text (the 64-bit value is narrowed to 21 bits here)
RECURSIVE PyHashAcc(_, _)
PyHashAcc(s, h) ==
    IF s = <<>> THEN h
    ELSE PyHashAcc(Tail(s), (h * 31 + Head(s) * (hash_seed + 7)) % 2097152)

PyHash(s) ==
    IF s = <<>> THEN 0
    ELSE LET h == PyHashAcc(s, hash_seed * 40503 + 1) IN h - 1048576

\* which return statement of _convert_code_to_int is reached
ConvertBranchSwapped(code_str) ==
    IF Len(code_str) = 1 THEN "ord"
    ELSE IF IntParses(code_str) THEN "int"
    ELSE "hash"

ConvertBranch(code_str) ==
    IF IntParses(code_str) THEN "int"
    ELSE IF Len(code_str) = 1 THEN "ord"
    ELSE "hash"

ConvertCodeToIntNoOrd(code_str) ==
    IF ConvertBranch(code_str) = "int" THEN IntValue(code_str)
    ELSE Abs(PyHash(code_str)) % 1000000

ConvertCodeToInt(code_str) ==
    CASE ConvertBranch(code_str) = "int" -> IntValue(code_str)
      [] ConvertBranch(code_str) = "ord" -> code_str[1]
      [] OTHER -> Abs(PyHash(code_str)) % 1000000

(***************************************************************************)
(* The idle values of each component's variables, for the specifications   *)
(* of the other components.                                                *)
(***************************************************************************)
NormIdle ==
    /\ hash_seed = 0
    /\ code_strs = <<>>
    /\ codes = <<>>
    /\ branches = <<>>

ParseIdle ==
    /\ xml_blocks = <<>>
    /\ xml_content = <<>>
    /\ all_domains = <<>>
    /\ parse_pc = "idle"

NoApply ==
    [called |-> FALSE, again |-> FALSE, table_name |-> "", metadata |-> <<>>,
     ok |-> FALSE, clean |-> FALSE, reports |-> <<>>, unclosed |-> 0]

NoDb ==
    [tables |-> {}, alias_rows |-> {}, domain_rows |-> {}, indexes |-> {}, triggers |-> {},
     rows |-> {}]

StoreIdle ==
    /\ db = NoDb
    /\ ext_loading = TRUE
    /\ db_busy = FALSE
    /\ last_apply = NoApply

NoDir == [is_dir |-> FALSE, files |-> <<>>]
NoCache == [loaded |-> FALSE, value |-> <<>>]
NoExtract == [called |-> FALSE, fields |-> <<>>, all_domains |-> <<>>,
              domains |-> <<>>, calls |-> <<>>]

ExtractIdle ==
    /\ gdb = NoDir
    /\ gdal = [has_domain_name |-> TRUE, has_field_metadata |-> FALSE]
    /\ catalog_cache = ""
    /\ domains_cache = NoCache
    /\ dir_scans = 0
    /\ file_reads = 0
    /\ load_returns = <<>>
    /\ extract_result = NoExtract

RunIdle ==
    /\ args = [n |-> 0, workers |-> 1, overwrite |-> FALSE, use_ogr2ogr |-> TRUE,
               preserve_metadata |-> TRUE, source_ok |-> TRUE]
    /\ build = [ogr2ogr_available |-> TRUE, ogr_exceptions |-> TRUE]
    /\ dest = "none"
    /\ run_pc = "idle"
    /\ max_workers = 1
    /\ layer_state = <<>>
    /\ return_codes = <<>>
    /\ started = <<>>
    /\ success_count = 0
    /\ failed_layers = <<>>
    /\ meta_results = <<>>
    /\ exit_code = 0
    /\ dest_handles = [held |-> 0, peak |-> 0]
    /\ commands = <<>>

NoReturn == [output_lines |-> <<>>, return_code |-> 0, returned |-> FALSE]

MonIdle ==
    /\ process = [running |-> FALSE, returncode |-> 0]
    /\ script = <<>>
    /\ written = <<>>
    /\ stdout = <<>>
    /\ decoded = <<>>
    /\ reader_pc = "idle"
    /\ line = <<>>
    /\ output_lock = "free"
    /\ output_lines = <<>>
    /\ reading_done = FALSE
    /\ mon_pc = "idle"
    /\ sleep_latency = 0
    /\ polls = 0
    /\ current_time = 0
    /\ poll_interval = 0
    /\ stable_count = 0
    /\ last_output_count = 0
    /\ last_output_time = 0
    /\ last_status_time = 0
    /\ stall_log = <<>>
    /\ wait_result = FALSE
    /\ mon_return = NoReturn

NoMonitored == [raised |-> FALSE, output_lines |-> <<>>, return_code |-> 0]

NoLayerResult == [called |-> FALSE, raised |-> FALSE, success |-> FALSE, error_msg |-> <<>>]

LayerIdle ==
    /\ monitored = NoMonitored
    /\ layer_result = NoLayerResult

NoKeyLayer == [datasource |-> FALSE, found |-> FALSE, fid_column |-> <<>>,
               metadata_raises |-> FALSE, metadata |-> <<>>]

NoKeys == [called |-> FALSE, keys |-> <<>>]

KeyIdle ==
    /\ key_layer = NoKeyLayer
    /\ extracted_keys = NoKeys

(***************************************************************************)
(* The normalizer, called on two code texts.                               *)
(***************************************************************************)
NormInit ==
    /\ hash_seed \in 0..MaxSeed
    /\ code_strs \in CodeStrings \X CodeStrings
    /\ codes = <<>>
    /\ branches = <<>>
    /\ ParseIdle
    /\ StoreIdle
    /\ ExtractIdle
    /\ RunIdle
    /\ MonIdle
    /\ LayerIdle
    /\ KeyIdle

ConvertCode ==
    /\ Len(codes) < Len(code_strs)
    /\ LET code_str == code_strs[Len(codes) + 1]
       IN  /\ codes' = Append(codes, ConvertCodeToInt(code_str))
           /\ branches' = Append(branches, ConvertBranch(code_str))
    /\ UNCHANGED <<hash_seed, code_strs>>

NormNext == ConvertCode /\ UNCHANGED <<parseVars, storeVars, extractVars, runVars, monVars, layerVars,
                   keyVars>>

(***************************************************************************)
(* The text of a catalog file, as the parser's patterns see it: a sequence *)
(* of elements.  An element is an opening or closing tag of a domain block *)
(* (primary "D2", legacy "D1") or of a coded value ("CV"), or a            *)
(* <DomainName>, <Code> or <Name> element with its text.  An element with  *)
(* empty text matches none of the patterns ([^<]+ needs one character), so *)
(* the text simply does not hold it.                                       *)
(***************************************************************************)
Tag(t) == [t |-> t, name |-> "", code |-> <<>>]
DomainNameElem(v) == [t |-> "DomainName", name |-> v, code |-> <<>>]
CodeElem(c) == [t |-> "Code", name |-> "", code |-> c]
NameElem(v) == [t |-> "Name", name |-> v, code |-> <<>>]

\* str.strip() and html.unescape() of the names and descriptions of the model
StripText(v) ==
    CASE v = " " -> ""
      [] v = " Actif " -> "Actif"
      [] OTHER -> v

HtmlUnescape(v) ==
    CASE v = "L&apos;eau" -> "L'eau"
      [] v = "A &amp; B" -> "A & B"
      [] OTHER -> v

\* a coded value as written: code text and name, <<>> and "" for an element
\* that is not there
CodedValue(c, d) == [code |-> c, name |-> d]

\* the lists of coded values a block of the model may hold:
\* "1"/"2", a repeated code, "65" with "A", an entity and padded texts, a
\* value with no code, a value with no name
ValueLists ==
    { <<>>,
      <<CodedValue(<<49>>, "Actif"), CodedValue(<<50>>, "Inactif")>>,
      <<CodedValue(<<49>>, "Actif"), CodedValue(<<49>>, "Inactif")>>,
      <<CodedValue(<<54, 53>>, "Actif"), CodedValue(<<65>>, "Inactif")>>,
      <<CodedValue(<<32, 50>>, "L&apos;eau"), CodedValue(<<65, 66>>, " Actif ")>>,
      <<CodedValue(<<>>, "Actif")>>,
      <<CodedValue(<<49>>, ""), CodedValue(<<32>>, "Actif")>> }

\* "" for a block with no <DomainName> element
DomainNames == {"Statut", "Type", ""}

Blocks == [variant : {"D2", "D1"}, name : DomainNames, values : ValueLists]

RECURSIVE SeqsUpTo(_, _)
SeqsUpTo(S, n) ==
    IF n = 0 THEN {<<>>}
    ELSE LET shorter == SeqsUpTo(S, n - 1)
         IN  shorter \cup {Append(q, x) : q \in {r \in shorter : Len(r) = n - 1}, x \in S}

CodedValueElems(cv) ==
    <<Tag("CVo")>>
        \o (IF cv.code # <<>> THEN <<CodeElem(cv.code)>> ELSE <<>>)
        \o (IF cv.name # "" THEN <<NameElem(cv.name)>> ELSE <<>>)
        \o <<Tag("CVc")>>

RECURSIVE ValuesElems(_)
ValuesElems(vs) ==
    IF vs = <<>> THEN <<>> ELSE CodedValueElems(Head(vs)) \o ValuesElems(Tail(vs))

BlockElems(b) ==
    <<Tag(b.variant \o "o")>>
        \o (IF b.name # "" THEN <<DomainNameElem(b.name)>> ELSE <<>>)
        \o ValuesElems(b.values)
        \o <<Tag(b.variant \o "c")>>

RECURSIVE TextOf(_)
TextOf(bs) == IF bs = <<>> THEN <<>> ELSE BlockElems(Head(bs)) \o TextOf(Tail(bs))

\* the least index >= from whose element is of one of the kinds, 0 when
\* there is none
FirstFrom(text, from, kinds) ==
    LET hits == {i \in from..Len(text) : text[i].t \in kinds}
    IN  IF hits = {} THEN 0 ELSE CHOOSE i \in hits : \A j \in hits : i <= j

\* re.findall of  <Open[^>]*>.*?</Close>  (DOTALL): leftmost opening tag,
\* then the nearest closing tag, then on from behind the match
RECURSIVE FindAll(_, _, _, _)
FindAll(text, from, opening, closing) ==
    LET i == FirstFrom(text, from, opening)
        j == IF i = 0 THEN 0 ELSE FirstFrom(text, i + 1, closing)
    IN  IF i = 0 \/ j = 0 THEN <<>>
        ELSE <<SubSeq(text, i, j)>> \o FindAll(text, j + 1, opening, closing)

\* <GPCodedValueDomain2[^>]*> and </GPCodedValueDomain2>
PrimaryOpen == {"D2o"}
PrimaryClose == {"D2c"}
\* <GPCodedValueDomain[^>]*> takes the primary opening tag as well: "2" is
\* matched by [^>]*.  </GPCodedValueDomain> takes the legacy closing tag only.
LegacyOpen == {"D1o", "D2o"}
LegacyClose == {"D1c"}

NoResult == [ok |-> FALSE, code |-> 0, description |-> ""]

\* _extract_coded_value: the first <Code> and the first <Name> of the
\* sub-block, stripped; None when either is missing or empty
ExtractCodedValue(coded_xml) ==
    LET ci == FirstFrom(coded_xml, 1, {"Code"})
        ni == FirstFrom(coded_xml, 1, {"Name"})
        code_str == IF ci = 0 THEN <<>> ELSE Strip(coded_xml[ci].code)
        description == IF ni = 0 THEN "" ELSE StripText(coded_xml[ni].name)
    IN  IF code_str = <<>> \/ description = "" THEN NoResult
        ELSE [ok |-> TRUE, code |-> ConvertCodeToInt(code_str),
              description |-> HtmlUnescape(description)]

EmptyMap == <<>>

\* d[k] = v of a Python dict
Put(d, k, v) == [x \in DOMAIN d \cup {k} |-> IF x = k THEN v ELSE d[x]]

\* the fold with "if code not in coded_values" before the assignment
RECURSIVE CodedValuesOfFirstWins(_, _)
CodedValuesOfFirstWins(coded_matches, coded_values) ==
    IF coded_matches = <<>> THEN coded_values
    ELSE LET result == ExtractCodedValue(Head(coded_matches))
         IN  CodedValuesOfFirstWins(Tail(coded_matches),
                           IF result.ok /\ result.code \notin DOMAIN coded_values
                           THEN Put(coded_values, result.code, result.description)
                           ELSE coded_values)

RECURSIVE CodedValuesOf(_, _)
CodedValuesOf(coded_matches, coded_values) ==
    IF coded_matches = <<>> THEN coded_values
    ELSE LET result == ExtractCodedValue(Head(coded_matches))
         IN  CodedValuesOf(Tail(coded_matches),
                           IF result.ok
                           THEN Put(coded_values, result.code, result.description)
                           ELSE coded_values)

\* _parse_single_domain: (domain_name, coded_values), domain_name "" for None
ParseSingleDomain(domain_xml) ==
    LET di == FirstFrom(domain_xml, 1, {"DomainName"})
        domain_name == IF di = 0 THEN "" ELSE StripText(domain_xml[di].name)
    IN  IF domain_name = "" THEN [domain_name |-> "", coded_values |-> EmptyMap]
        ELSE [domain_name |-> domain_name,
              coded_values |->
                  CodedValuesOf(FindAll(domain_xml, 1, {"CVo"}, {"CVc"}), EmptyMap)]

RECURSIVE DomainsOf(_, _)
DomainsOf(domain_matches, domains) ==
    IF domain_matches = <<>> THEN domains
    ELSE LET d == ParseSingleDomain(Head(domain_matches))
         IN  DomainsOf(Tail(domain_matches),
                       IF d.domain_name # "" /\ d.coded_values # EmptyMap
                       THEN Put(domains, d.domain_name, d.coded_values)
                       ELSE domains)

\* the blocks of both patterns, the primary pattern's first
DomainMatches(text) ==
    FindAll(text, 1, PrimaryOpen, PrimaryClose)
        \o FindAll(text, 1, LegacyOpen, LegacyClose)

\* _parse_domains_from_xml
ParseDomainsFromXml(text) == DomainsOf(DomainMatches(text), EmptyMap)

(***************************************************************************)
(* The parser, called on a text of at most MaxBlocks blocks.               *)
(***************************************************************************)
ParseInit ==
    /\ hash_seed \in {0, MaxSeed}
    /\ code_strs = <<>> /\ codes = <<>> /\ branches = <<>>
    /\ xml_blocks \in SeqsUpTo(Blocks, MaxBlocks)
    /\ xml_content = TextOf(xml_blocks)
    /\ all_domains = EmptyMap
    /\ parse_pc = "start"
    /\ StoreIdle
    /\ ExtractIdle
    /\ RunIdle
    /\ MonIdle
    /\ LayerIdle
    /\ KeyIdle

ParseXml ==
    /\ parse_pc = "start"
    /\ all_domains' = ParseDomainsFromXml(xml_content)
    /\ parse_pc' = "done"
    /\ UNCHANGED <<xml_blocks, xml_content, normVars, storeVars, extractVars, runVars, monVars, layerVars,
                   keyVars>>

ParseNext == ParseXml

SpecParse == ParseInit /\ [][ParseNext]_vars

(***************************************************************************)
(* The metadata extractor: locating the catalog file among the .gdbtable   *)
(* files of the container, loading it once, and the waterfall of           *)
(* extract_domain_values.                                                  *)
(***************************************************************************)
Block(variant, name, values) == [variant |-> variant, name |-> name, values |-> values]

StatutBlock ==
    Block("D2", "Statut", <<CodedValue(<<49>>, "Actif"), CodedValue(<<50>>, "Inactif")>>)
TypeBlock == Block("D2", "Type", <<CodedValue(<<65>>, "Inactif")>>)
OtherStatutBlock == Block("D2", "Statut", <<CodedValue(<<49>>, "Inactif")>>)

\* a .gdbtable file: its name, its text, whether it is 10 MiB or more, how
\* many elements of its text lie in its first MiB, and whether the scan can
\* read it
GdbFile(name, blocks, large, sample) ==
    [name |-> name, blocks |-> blocks, large |-> large, sample |-> sample,
     readable |-> TRUE]

Unreadable(file) == [file EXCEPT !.readable = FALSE]

PlainTable == GdbFile("a00000001.gdbtable", <<>>, FALSE, 0)
ItemsTable ==
    GdbFile("a00000004.gdbtable",
            <<StatutBlock, TypeBlock, StatutBlock, TypeBlock, StatutBlock>>, FALSE, 0)
FewTable == GdbFile("a00000005.gdbtable", <<StatutBlock, TypeBlock>>, FALSE, 0)
SixTable ==
    GdbFile("a00000006.gdbtable",
            <<OtherStatutBlock, TypeBlock, OtherStatutBlock, TypeBlock,
              OtherStatutBlock, OtherStatutBlock>>, FALSE, 0)
BigTable == GdbFile("a00000007.gdbtable", <<TypeBlock, StatutBlock>>, TRUE, 6)
TieTable ==
    GdbFile("a00000008.gdbtable",
            <<TypeBlock, TypeBlock, TypeBlock, TypeBlock, TypeBlock>>, FALSE, 0)

Dir(files) == [is_dir |-> TRUE, files |-> files]

\* the containers of the model, their files in sorted order
GdbDirs ==
    { NoDir, Dir(<<>>), Dir(<<PlainTable, FewTable>>), Dir(<<PlainTable, ItemsTable>>),
      Dir(<<ItemsTable, FewTable, SixTable>>), Dir(<<ItemsTable, Unreadable(SixTable)>>),
      Dir(<<BigTable>>), Dir(<<FewTable, ItemsTable, TieTable>>) }

\* the threshold of line 564 and the points per complete block of lines 554, 562
MinScore == 20
PointsPerDomain == 5

\* the indicator substrings of lines 537-543 and their points
Indicators ==
    << [kinds |-> {"D2o", "D2c"}, points |-> 10],
       [kinds |-> {"DomainName"}, points |-> 5],
       [kinds |-> {"CVo", "CVc"}, points |-> 3],
       [kinds |-> {"Code"}, points |-> 2],
       [kinds |-> {"Name"}, points |-> 2] >>

RECURSIVE IndicatorScore(_, _)
IndicatorScore(text, i) ==
    IF i > Len(Indicators) THEN 0
    ELSE (IF FirstFrom(text, 1, Indicators[i].kinds) # 0 THEN Indicators[i].points ELSE 0)
         + IndicatorScore(text, i + 1)

DomainCount(text) == Len(FindAll(text, 1, PrimaryOpen, PrimaryClose))

\* _file_contains_domains: (contains_domains, score) and the reads it made;
\* a read that raises gives (False, 0)
FileContainsDomains(file) ==
    LET full_text == TextOf(file.blocks)
        sample == SubSeq(full_text, 1, file.sample)
        score == IF file.large
                 THEN IndicatorScore(sample, 1) + DomainCount(sample) * PointsPerDomain
                 ELSE DomainCount(full_text) * PointsPerDomain
    IN  IF ~file.readable THEN [contains |-> FALSE, score |-> 0, reads |-> 1]
        ELSE [contains |-> score > MinScore, score |-> score,
              reads |-> IF file.large THEN 1 ELSE 2]

\* the loop of _find_domain_catalog_file over sorted(gdbtable_files); the
\* variant takes a file that scores as much as the best so far
RECURSIVE BestFileLastWins(_, _, _)
BestFileLastWins(files, i, best) ==
    IF i > Len(files) THEN best
    ELSE LET r == FileContainsDomains(files[i])
         IN  BestFileLastWins(files, i + 1,
                              IF r.contains /\ r.score >= best.score
                              THEN [file |-> files[i].name, score |-> r.score,
                                    reads |-> best.reads + r.reads]
                              ELSE [best EXCEPT !.reads = @ + r.reads])

RECURSIVE BestFile(_, _, _)
BestFile(files, i, best) ==
    IF i > Len(files) THEN best
    ELSE LET r == FileContainsDomains(files[i])
         IN  BestFile(files, i + 1,
                      IF r.contains /\ r.score > best.score
                      THEN [file |-> files[i].name, score |-> r.score,
                            reads |-> best.reads + r.reads]
                      ELSE [best EXCEPT !.reads = @ + r.reads])

\* _find_domain_catalog_file: the file found ("" for None), the directory
\* listings and the reads made
FindDomainCatalogFile(dir) ==
    IF ~dir.is_dir THEN [file |-> "", scans |-> 0, reads |-> 0]
    ELSE LET best == BestFile(dir.files, 1, [file |-> "", score |-> 0, reads |-> 0])
         IN  [file |-> best.file, scans |-> 1, reads |-> best.reads]

FileNamed(dir, name) ==
    LET i == CHOOSE j \in 1..Len(dir.files) : dir.files[j].name = name
    IN  dir.files[i]

Cached(value) == [loaded |-> TRUE, value |-> value]

\* line 407: "if self._domains_cache is not None"; the variant never takes
\* the cache
CacheHitNever(cache) == FALSE

CacheHit(cache) == cache.loaded

\* _load_domains_from_catalog, from the caches c = [catalog, domains]:
\* the caches afterwards, the catalog returned, the listings and reads made
LoadDomainsFromCatalog(c, dir, read_fails) ==
    IF CacheHit(c.domains)
    THEN [catalog |-> c.catalog, domains |-> c.domains, ret |-> c.domains.value,
          scans |-> 0, reads |-> 0]
    ELSE LET found == IF c.catalog = ""
                      THEN FindDomainCatalogFile(dir)
                      ELSE [file |-> c.catalog, scans |-> 0, reads |-> 0]
         IN  IF found.file = ""
             THEN [catalog |-> found.file, domains |-> Cached(EmptyMap), ret |-> EmptyMap,
                   scans |-> found.scans, reads |-> found.reads]
             ELSE IF read_fails
             THEN [catalog |-> found.file, domains |-> Cached(EmptyMap), ret |-> EmptyMap,
                   scans |-> found.scans, reads |-> found.reads + 1]
             ELSE LET parsed == ParseDomainsFromXml(TextOf(FileNamed(dir, found.file).blocks))
                  IN  [catalog |-> found.file, domains |-> Cached(parsed), ret |-> parsed,
                       scans |-> found.scans, reads |-> found.reads + 1]

\* the result of tier t (2 layer metadata, 3 container metadata, 4 field
\* metadata, 5 raw-data sampling) for a field: what the tier yields when the
\* source data holds something for it, nothing otherwise
TierMap(t) == [c \in {t} |-> "tier"]
TierResult(yields, t) == IF t \in yields THEN TierMap(t) ELSE EmptyMap

\* lines 354, 360, 366, 371: "if not domain_values"; the variant goes on
\* whatever was found
NeedsNextTierAlways(domain_values) == TRUE

NeedsNextTier(domain_values) == domain_values = EmptyMap

\* tiers t..5 for one field, from the values found so far; yields are the
\* tiers for which the source data holds something
RECURSIVE Waterfall(_, _, _, _)
Waterfall(domain_values, calls, t, yields) ==
    IF t > 5 THEN [values |-> domain_values, calls |-> calls]
    ELSE IF NeedsNextTier(domain_values) /\ (t # 4 \/ gdal.has_field_metadata)
    THEN Waterfall(TierResult(yields, t), Append(calls, t), t + 1, yields)
    ELSE Waterfall(domain_values, calls, t + 1, yields)

\* lines 340-342: the domain name the field definition reports, "" for None
DomainNameOf(field) == IF gdal.has_domain_name THEN field.domain_name ELSE ""

\* lines 336-378 for one field
FieldDomainValues(field, catalog) ==
    LET domain_name == DomainNameOf(field)
    IN  IF domain_name = "" THEN [values |-> EmptyMap, calls |-> <<>>]
        ELSE Waterfall(IF domain_name \in DOMAIN catalog THEN catalog[domain_name]
                       ELSE EmptyMap,
                       <<>>, 2, field.yields)

\* the loop over the fields of the layer: domains and the tiers called per field
RECURSIVE FieldsDomains(_, _, _, _)
FieldsDomains(fields, i, catalog, acc) ==
    IF i > Len(fields) THEN acc
    ELSE LET r == FieldDomainValues(fields[i], catalog)
         IN  FieldsDomains(fields, i + 1, catalog,
                 [domains |-> IF r.values # EmptyMap
                              THEN Put(acc.domains, fields[i].name, r.values)
                              ELSE acc.domains,
                  calls |-> Put(acc.calls, fields[i].name, r.calls)])

\* a field: its name, the domain it declares ("" for none), and the tiers
\* (2 to 5) for which the source data holds something for it
Field(name, domain_name, yields) ==
    [name |-> name, domain_name |-> domain_name, yields |-> yields]

\* the layers of the model
Layers ==
    { <<Field("statut", "Statut", {}), Field("nom", "", {5})>>,
      <<Field("type", "Type", {2, 3, 4, 5}), Field("classe", "Autre", {3, 5})>>,
      <<Field("statut", "Statut", {2}), Field("type", "Type", {4})>>,
      <<Field("classe", "Autre", {4}), Field("nom", "", {})>>,
      <<Field("classe", "Autre", {}), Field("type", "Type", {5})>> }

ExtractInit ==
    /\ NormIdle
    /\ ParseIdle
    /\ StoreIdle
    /\ RunIdle
    /\ MonIdle
    /\ LayerIdle
    /\ KeyIdle
    /\ gdb \in GdbDirs
    /\ gdal \in [has_domain_name : BOOLEAN, has_field_metadata : BOOLEAN]
    /\ catalog_cache = ""
    /\ domains_cache = NoCache
    /\ dir_scans = 0
    /\ file_reads = 0
    /\ load_returns = <<>>
    /\ extract_result = NoExtract

\* the effect of one loader call on the caches, the counters and the log
Loaded(r) ==
    /\ catalog_cache' = r.catalog
    /\ domains_cache' = r.domains
    /\ dir_scans' = dir_scans + r.scans
    /\ file_reads' = file_reads + r.reads
    /\ load_returns' = Append(load_returns,
                              [catalog |-> r.catalog, domains |-> r.ret,
                               dir_scans |-> dir_scans + r.scans,
                               file_reads |-> file_reads + r.reads])

Caches == [catalog |-> catalog_cache, domains |-> domains_cache]

\* _load_domains_from_catalog; the read of the catalog file may raise
LoadDomains ==
    /\ Len(load_returns) < MaxLoads
    /\ \E read_fails \in BOOLEAN :
           \E l \in {LoadDomainsFromCatalog(Caches, gdb, read_fails)} : Loaded(l)
    /\ UNCHANGED <<gdb, gdal, extract_result, normVars, parseVars, storeVars, runVars, monVars, layerVars,
                   keyVars>>

\* extract_domain_values for a layer that is there
ExtractDomainValues ==
    /\ Len(load_returns) < MaxLoads
    /\ \E fields \in Layers, read_fails \in BOOLEAN :
           \E l \in {LoadDomainsFromCatalog(Caches, gdb, read_fails)} :
           \E r \in {FieldsDomains(fields, 1, l.ret,
                                   [domains |-> EmptyMap, calls |-> EmptyMap])} :
               /\ Loaded(l)
               /\ extract_result' = [called |-> TRUE, fields |-> fields,
                                     all_domains |-> l.ret,
                                     domains |-> r.domains, calls |-> r.calls]
    /\ UNCHANGED <<gdb, gdal, normVars, parseVars, storeVars, runVars, monVars, layerVars,
                   keyVars>>

\* extract_domain_values when the container cannot be opened or the layer
\* is not in it: lines 319-324, the loader is not called
ExtractNoLayer ==
    /\ extract_result' = [NoExtract EXCEPT !.called = TRUE]
    /\ UNCHANGED <<gdb, gdal, catalog_cache, domains_cache, dir_scans, file_reads,
                   load_returns, normVars, parseVars, storeVars, runVars, monVars, layerVars,
                   keyVars>>

ExtractNext == LoadDomains \/ ExtractDomainValues \/ ExtractNoLayer

SpecExtract == ExtractInit /\ [][ExtractNext]_vars

(***************************************************************************)
(* The metadata applier.  The destination is a record of its tables, the   *)
(* rows of the two overlay tables, its unique indexes and its triggers.    *)
(* A statement fails while another connection holds the destination's      *)
(* lock; _execute_sql fails as well on a build whose sqlite3 has no        *)
(* enable_load_extension (line 1135 raises, line 1147 catches).            *)
(***************************************************************************)
AliasTable == "metadata_field_aliases"
DomainTable == "metadata_domain_values"
NativeKeys == {"ogc_fid", "fid", "OBJECTID"}

\* what an operation of the applier comes to: the destination after it, what
\* it returned, whether no statement failed, and the connections it opened
\* and returned without calling close() on them
Outcome(d, ok, clean) == [db |-> d, ok |-> ok, clean |-> clean, unclosed |-> 0]

\* the operation returned with n more connections not closed
Unclosed(r, n) == [r EXCEPT !.unclosed = @ + n]

\* the value of a column in a row of a layer table: the columns of the model
\* other than "statut" hold the row's identifier
ValueIn(row, column) == IF column = "statut" THEN row.statut ELSE row.ogc_fid

\* UNIQUE: two rows of the table agree on every column of the list
HasDuplicates(rows, table, columns) ==
    \E r1, r2 \in rows :
        /\ r1 # r2
        /\ r1.table_name = table /\ r2.table_name = table
        /\ \A k \in 1..Len(columns) : ValueIn(r1, columns[k]) = ValueIn(r2, columns[k])

\* _execute_sql: connect, enable_load_extension, execute, commit, close;
\* False on any error, and then close() of line 1145 is not reached
ExecuteSql(d, stmt) ==
    IF ~ext_loading \/ db_busy THEN Unclosed(Outcome(d, FALSE, FALSE), 1)
    ELSE CASE stmt.op = "create_table" ->
                Outcome([d EXCEPT !.tables = @ \cup {stmt.name}], TRUE, TRUE)
           [] stmt.op = "create_index" ->
                IF stmt.table \notin d.tables THEN Unclosed(Outcome(d, FALSE, FALSE), 1)
                ELSE IF \E x \in d.indexes : x.name = stmt.name
                THEN Outcome(d, TRUE, TRUE)
                ELSE IF HasDuplicates(d.rows, stmt.table, stmt.columns)
                THEN Unclosed(Outcome(d, FALSE, FALSE), 1)
                ELSE Outcome([d EXCEPT !.indexes =
                                 @ \cup {[name |-> stmt.name, table |-> stmt.table,
                                          columns |-> stmt.columns]}],
                             TRUE, TRUE)
           [] OTHER ->
                IF stmt.valid
                THEN Outcome([d EXCEPT !.triggers = @ \cup {stmt.sql}], TRUE, TRUE)
                ELSE Unclosed(Outcome(d, FALSE, FALSE), 1)

CreateTable(name) == [op |-> "create_table", name |-> name]

\* INSERT OR REPLACE under PRIMARY KEY (table_name, field_name); the variant
\* is a table with no primary key
AliasUpsertNoKey(rows, row) == rows \cup {row}

AliasUpsert(rows, row) ==
    {r \in rows : ~(r.table_name = row.table_name /\ r.field_name = row.field_name)}
        \cup {row}

\* INSERT OR REPLACE under PRIMARY KEY (table_name, field_name, code)
DomainUpsert(rows, row) ==
    {r \in rows : ~(/\ r.table_name = row.table_name
                    /\ r.field_name = row.field_name
                    /\ r.code = row.code)}
        \cup {row}

\* the loop over aliases.items()
RECURSIVE InsertAliases(_, _, _, _)
InsertAliases(rows, table_name, aliases, fields) ==
    IF fields = {} THEN rows
    ELSE LET f == CHOOSE x \in fields : TRUE
         IN  InsertAliases(AliasUpsert(rows, [table_name |-> table_name,
                                              field_name |-> f,
                                              alias |-> aliases[f]]),
                           table_name, aliases, fields \ {f})

\* the loops over domain_values.items() and values.items()
RECURSIVE InsertCodes(_, _, _, _, _)
InsertCodes(rows, table_name, field_name, values, cs) ==
    IF cs = {} THEN rows
    ELSE LET c == CHOOSE x \in cs : TRUE
         IN  InsertCodes(DomainUpsert(rows, [table_name |-> table_name,
                                             field_name |-> field_name,
                                             code |-> c,
                                             description |-> values[c]]),
                         table_name, field_name, values, cs \ {c})

RECURSIVE InsertDomains(_, _, _, _)
InsertDomains(rows, table_name, domain_values, fields) ==
    IF fields = {} THEN rows
    ELSE LET f == CHOOSE x \in fields : TRUE
         IN  InsertDomains(InsertCodes(rows, table_name, f, domain_values[f],
                                       DOMAIN domain_values[f]),
                           table_name, domain_values, fields \ {f})

\* apply_field_aliases; a failed insert leaves no row: commit is not reached,
\* nor is close() of line 1189
ApplyFieldAliases(d, table_name, aliases) ==
    IF aliases = EmptyMap THEN Outcome(d, TRUE, TRUE)
    ELSE LET created == ExecuteSql(d, CreateTable(AliasTable))
         IN  IF db_busy \/ AliasTable \notin created.db.tables
             THEN Unclosed(Outcome(created.db, FALSE, FALSE), created.unclosed + 1)
             ELSE Unclosed(Outcome([created.db EXCEPT !.alias_rows =
                                       InsertAliases(@, table_name, aliases, DOMAIN aliases)],
                                   TRUE, created.clean),
                           created.unclosed)

\* apply_domain_values: the table is created before the test for no values
ApplyDomainValues(d, table_name, domain_values) ==
    LET created == ExecuteSql(d, CreateTable(DomainTable))
    IN  IF domain_values = EmptyMap
        THEN Unclosed(Outcome(created.db, TRUE, created.clean), created.unclosed)
        ELSE IF db_busy \/ DomainTable \notin created.db.tables
             THEN Unclosed(Outcome(created.db, FALSE, FALSE), created.unclosed + 1)
             ELSE Unclosed(Outcome([created.db EXCEPT !.domain_rows =
                                       InsertDomains(@, table_name, domain_values,
                                                     DOMAIN domain_values)],
                                   TRUE, created.clean),
                           created.unclosed)

\* str.replace on one character
RECURSIVE Replace(_, _, _)
Replace(s, old, new) ==
    IF s = "" THEN ""
    ELSE (IF SubSeq(s, 1, 1) = old THEN new ELSE SubSeq(s, 1, 1))
             \o Replace(SubSeq(s, 2, Len(s)), old, new)

\* '_'.join(primary_keys)
RECURSIVE JoinKeys(_)
JoinKeys(primary_keys) ==
    IF primary_keys = <<>> THEN ""
    ELSE IF Len(primary_keys) = 1 THEN Head(primary_keys)
    ELSE Head(primary_keys) \o "_" \o JoinKeys(Tail(primary_keys))

\* [:50]
MaxIndexName == 50

Truncate(s) == IF Len(s) > MaxIndexName THEN SubSeq(s, 1, MaxIndexName) ELSE s

\* lines 1291-1292
IndexName(table_name, primary_keys) ==
    Truncate(Replace(Replace("pk_" \o table_name \o "_" \o JoinKeys(primary_keys),
                             "-", "_"), ".", "_"))

\* apply_primary_keys
ApplyPrimaryKeys(d, table_name, primary_keys) ==
    IF primary_keys = <<>> THEN Outcome(d, TRUE, TRUE)
    ELSE IF db_busy THEN Unclosed(Outcome(d, FALSE, FALSE), 1)
    ELSE IF table_name \notin d.tables THEN Outcome(d, FALSE, TRUE)
    ELSE IF Len(primary_keys) = 1 /\ primary_keys[1] \in NativeKeys THEN Outcome(d, TRUE, TRUE)
    ELSE ExecuteSql(d, [op |-> "create_index", name |-> IndexName(table_name, primary_keys),
                        table |-> table_name, columns |-> primary_keys])

\* apply_triggers: every statement is tried, True when all of them succeeded
RECURSIVE ApplyTriggersFrom(_, _, _)
ApplyTriggersFrom(acc, table_name, triggers) ==
    IF triggers = <<>> THEN acc
    ELSE LET r == ExecuteSql(acc.db, [op |-> "trigger", sql |-> Head(triggers).sql,
                                      valid |-> Head(triggers).valid])
         IN  ApplyTriggersFrom(Unclosed(Outcome(r.db, acc.ok /\ r.ok, acc.clean /\ r.clean),
                                        acc.unclosed + r.unclosed),
                               table_name, Tail(triggers))

ApplyTriggers(d, table_name, triggers) ==
    ApplyTriggersFrom(Outcome(d, TRUE, TRUE), table_name, triggers)

\* what one application reported
Report(op, r) == [op |-> op, ok |-> r.ok]

\* the variant is "success = success and self.apply_...": an application
\* is skipped once an earlier one has failed
ApplyAllMetadataShortCircuit(d, table_name, metadata) ==
    LET a == ApplyFieldAliases(d, table_name, metadata.field_aliases)
        v == IF a.ok THEN ApplyDomainValues(a.db, table_name, metadata.domain_values) ELSE a
        k == IF v.ok THEN ApplyPrimaryKeys(v.db, table_name, metadata.primary_keys) ELSE v
        t == IF k.ok THEN ApplyTriggers(k.db, table_name, metadata.triggers) ELSE k
    IN  [db |-> t.db, ok |-> t.ok, clean |-> a.clean /\ v.clean /\ k.clean /\ t.clean,
         unclosed |-> a.unclosed + (IF a.ok THEN v.unclosed ELSE 0)
                          + (IF v.ok THEN k.unclosed ELSE 0) + (IF k.ok THEN t.unclosed ELSE 0),
         reports |-> <<Report("field_aliases", a)>>
                         \o (IF a.ok THEN <<Report("domain_values", v)>> ELSE <<>>)
                         \o (IF v.ok THEN <<Report("primary_keys", k)>> ELSE <<>>)
                         \o (IF k.ok THEN <<Report("triggers", t)>> ELSE <<>>)]

\* apply_all_metadata: the four applications in order, their results and-ed
ApplyAllMetadata(d, table_name, metadata) ==
    LET a == ApplyFieldAliases(d, table_name, metadata.field_aliases)
        v == ApplyDomainValues(a.db, table_name, metadata.domain_values)
        k == ApplyPrimaryKeys(v.db, table_name, metadata.primary_keys)
        t == ApplyTriggers(k.db, table_name, metadata.triggers)
    IN  [db |-> t.db, ok |-> a.ok /\ v.ok /\ k.ok /\ t.ok,
         clean |-> a.clean /\ v.clean /\ k.clean /\ t.clean,
         unclosed |-> a.unclosed + v.unclosed + k.unclosed + t.unclosed,
         reports |-> <<Report("field_aliases", a), Report("domain_values", v),
                       Report("primary_keys", k), Report("triggers", t)>>]

(***************************************************************************)
(* The metadata handed to the applier for the tables of the destination.   *)
(***************************************************************************)
LayerTables == {"Routes", "Parcelles"}

NoAliases == EmptyMap
OneAlias == [f \in {"statut"} |-> "Statut de la route"]
TwoAliases == [f \in {"statut", "type"} |-> IF f = "statut" THEN "Etat" ELSE "Type"]

NoDomains == EmptyMap
OneCode == [f \in {"statut"} |-> [c \in {1} |-> "Actif"]]
TwoCodes == [f \in {"statut"} |-> [c \in {1, 2} |-> IF c = 1 THEN "Inactif" ELSE "Actif"]]

BadTrigger == [sql |-> "trg", valid |-> FALSE]

Metadata(aliases, domain_values, primary_keys, triggers) ==
    [field_aliases |-> aliases, domain_values |-> domain_values,
     primary_keys |-> primary_keys, triggers |-> triggers]

\* two column names that agree on their first 40 characters
LongKeyA == "identifiant_unique_du_troncon_de_reseau_amont"
LongKeyB == "identifiant_unique_du_troncon_de_reseau_aval"

Metadatas ==
    { Metadata(NoAliases, NoDomains, <<>>, <<>>),
      Metadata(NoAliases, NoDomains, <<LongKeyA>>, <<>>),
      Metadata(NoAliases, NoDomains, <<LongKeyB>>, <<>>),
      Metadata(NoAliases, NoDomains, <<"no-route.an">>, <<>>),
      Metadata(NoAliases, NoDomains, <<"statut">>, <<>>),
      Metadata(OneAlias, OneCode, <<"ogc_fid">>, <<>>),
      Metadata(TwoAliases, TwoCodes, <<"id", "code">>, <<>>),
      Metadata(NoAliases, OneCode, <<>>, <<BadTrigger>>),
      Metadata(TwoAliases, NoDomains, <<"ogc_fid">>, <<>>) }

\* the rows ogr2ogr wrote into the layer table
LayerRows == {[table_name |-> "Routes", ogc_fid |-> 1, statut |-> 1],
              [table_name |-> "Routes", ogc_fid |-> 2, statut |-> 2],
              [table_name |-> "Routes", ogc_fid |-> 3, statut |-> 1]}

\* the destination after the layers were converted: "Routes" is there,
\* "Parcelles" is not
StoreInit ==
    /\ NormIdle
    /\ ParseIdle
    /\ ExtractIdle
    /\ RunIdle
    /\ MonIdle
    /\ LayerIdle
    /\ KeyIdle
    /\ db = [NoDb EXCEPT !.tables = {"Routes"}, !.rows = LayerRows]
    /\ ext_loading \in BOOLEAN
    /\ db_busy = FALSE
    /\ last_apply = NoApply

\* a connection left without close() is closed when the interpreter frees
\* the object: at the return of the method under reference counting, at
\* some later collection otherwise
ApplyAll ==
    \E table_name \in LayerTables, metadata \in Metadatas, freed_at_return \in BOOLEAN :
        \E r \in {ApplyAllMetadata(db, table_name, metadata)} :
            /\ db' = r.db
            /\ last_apply' =
                   [called |-> TRUE,
                    unclosed |-> IF freed_at_return THEN 0 ELSE r.unclosed,
                    again |-> /\ last_apply.called /\ last_apply.ok
                              /\ last_apply.table_name = table_name
                              /\ last_apply.metadata = metadata,
                    table_name |-> table_name, metadata |-> metadata,
                    ok |-> r.ok, clean |-> r.clean, reports |-> r.reports]
            /\ UNCHANGED <<ext_loading, db_busy, normVars, parseVars, extractVars, runVars, monVars, layerVars,
                   keyVars>>

\* another connection takes or releases the destination's lock
LockDb ==
    /\ db_busy' = ~db_busy
    /\ UNCHANGED <<db, ext_loading, last_apply, normVars, parseVars, extractVars, runVars, monVars, layerVars,
                   keyVars>>

StoreNext == ApplyAll \/ LockDb

SpecStore == StoreInit /\ [][StoreNext]_vars

(***************************************************************************)
(* The conversion run: main, convert, _prepare_conversion, then either the *)
(* ogr2ogr path (one subprocess per layer) or the GDAL API path, the       *)
(* summary and the exit code.  Layers are numbered 1..n in list order.     *)
(***************************************************************************)
\* the variables of the other components
restVars == <<normVars, parseVars, storeVars, extractVars, monVars, layerVars,
                   keyVars>>

LayerIds == 1..args.n

\* lines 1742-1753 and 1986-1991: several layers into one file are converted
\* by one worker; the variant keeps the requested worker count
CollapseWorkersNever(n, w) == w

CollapseWorkers(n, w) == IF n > 1 /\ w > 1 THEN 1 ELSE w

Running == {i \in LayerIds : layer_state[i] = "running"}

AllDone == \A i \in LayerIds : layer_state[i] = "done"

\* the process ends with this exit code
Exit(code) ==
    /\ run_pc' = "exited"
    /\ exit_code' = code

\* line 1704: "if self.output_path.exists() and not overwrite"; the variant
\* never refuses
OutputExistsNever(d, overwrite) == FALSE

OutputExists(d, overwrite) == d # "none" /\ ~overwrite

RunInit ==
    /\ NormIdle
    /\ ParseIdle
    /\ StoreIdle
    /\ ExtractIdle
    /\ MonIdle
    /\ LayerIdle
    /\ KeyIdle
    /\ args \in [n : 0..MaxLayers, workers : 0..MaxWorkers, overwrite : BOOLEAN,
                 use_ogr2ogr : BOOLEAN, preserve_metadata : BOOLEAN,
                 source_ok : BOOLEAN]
    /\ build \in [ogr2ogr_available : BOOLEAN, ogr_exceptions : BOOLEAN]
    /\ dest \in {"none", "old"}
    /\ run_pc = "start"
    /\ max_workers = args.workers
    /\ layer_state = [i \in LayerIds |-> "waiting"]
    /\ return_codes = [i \in LayerIds |-> 0]
    /\ started = <<>>
    /\ success_count = 0
    /\ failed_layers = <<>>
    /\ meta_results = <<>>
    /\ exit_code = 0
    /\ dest_handles = [held |-> 0, peak |-> 0]
    /\ commands = <<>>

\* main up to the end of _prepare_conversion: the source is validated and
\* opened (ValueError, RuntimeError), an existing destination without
\* overwrite raises FileExistsError, an empty layer list returns False, an
\* existing destination is unlinked, the worker count is collapsed
Prepare ==
    /\ run_pc = "start"
    /\ IF \/ ~args.source_ok
          \/ OutputExists(dest, args.overwrite)
          \/ args.n = 0
       THEN Exit(1) /\ UNCHANGED <<dest, max_workers>>
       ELSE /\ dest' = "none"
            /\ max_workers' = CollapseWorkers(args.n, args.workers)
            /\ run_pc' = IF args.use_ogr2ogr /\ build.ogr2ogr_available
                         THEN "ogr2ogr" ELSE "api"
            /\ UNCHANGED exit_code
    /\ UNCHANGED <<restVars, commands, args, build, layer_state, return_codes, started, success_count,
                   failed_layers, meta_results, dest_handles>>

\* the head of _convert_with_ogr2ogr_parallel: the collapse again, then the
\* sequential loop or the thread pool; ThreadPoolExecutor raises ValueError
\* for a worker count below 1
EnterOgr2ogr ==
    /\ run_pc = "ogr2ogr"
    /\ LET w == CollapseWorkers(args.n, max_workers)
       IN  /\ max_workers' = w
           /\ IF w = 1 THEN run_pc' = "sequential" /\ UNCHANGED exit_code
              ELSE IF w < 1 THEN Exit(1)
              ELSE run_pc' = "parallel" /\ UNCHANGED exit_code
    /\ UNCHANGED <<restVars, commands, args, build, dest, layer_state, return_codes, started,
                   success_count, failed_layers, meta_results, dest_handles>>

\* _build_ogr2ogr_command, lines 1622-1625: -overwrite for the first layer
\* when overwrite is asked, -update for every other layer, neither flag
\* (the destination is created) otherwise
BuildOgr2ogrCommand(overwrite, is_first) ==
    IF is_first /\ overwrite THEN "overwrite"
    ELSE IF ~is_first THEN "update"
    ELSE "create"

\* lines 2001-2022: a turn of the sequential loop begins once the turns
\* before it are over, post-processing included; the variant begins it as
\* soon as no earlier subprocess is running
LoopReadyAtExit(st, i) == \A j \in 1..(i - 1) : st[j] # "running"

LoopReady(st, i) == \A j \in 1..(i - 1) : st[j] = "done"

\* _convert_layer_with_ogr2ogr up to Popen, for the next layer of the list:
\* in the loop once the layer before is dealt with, in the pool once a
\* worker is free.  A Popen that raises is a failure result with no process.
StartLayer ==
    /\ run_pc \in {"sequential", "parallel"}
    /\ Len(started) < args.n
    /\ LET i == Len(started) + 1
       IN  /\ IF run_pc = "sequential"
              THEN LoopReady(layer_state, i)
              ELSE Cardinality(Running) < max_workers
           /\ started' = Append(started, i)
           /\ commands' = Append(commands,
                                 [layer |-> i,
                                  mode |-> BuildOgr2ogrCommand(args.overwrite, i = 1),
                                  dest |-> dest])
           /\ \E spawned \in BOOLEAN :
                  /\ layer_state' = [layer_state EXCEPT
                                        ![i] = IF spawned THEN "running" ELSE "exited"]
                  /\ return_codes' = [return_codes EXCEPT
                                         ![i] = IF spawned THEN 0 ELSE 1]
    /\ UNCHANGED <<restVars, args, build, dest, run_pc, max_workers, success_count,
                   failed_layers, meta_results, exit_code, dest_handles>>

\* the subprocess of layer i exits.  Code 0 leaves the destination written;
\* a failing first layer (create mode) may leave a partial file; a later
\* layer runs with -update, which fails on a destination that is not there.
ProcExit(i) ==
    /\ layer_state[i] = "running"
    /\ \E rc \in {0, 1}, partial \in BOOLEAN :
           /\ rc = 0 => (BuildOgr2ogrCommand(args.overwrite, i = 1) # "update" \/ dest # "none")
           /\ return_codes' = [return_codes EXCEPT ![i] = rc]
           /\ dest' = IF rc = 0 \/ (i = 1 /\ partial) THEN "new" ELSE dest
    /\ layer_state' = [layer_state EXCEPT ![i] = "exited"]
    /\ UNCHANGED <<restVars, commands, args, build, run_pc, max_workers, started, success_count,
                   failed_layers, meta_results, exit_code, dest_handles>>

\* an operation that opens n handles on the destination at once and closes
\* them before it returns, while h.held handles are held by its caller
OpenAndClose(h, n) ==
    [held |-> h.held,
     peak |-> IF h.held + n > h.peak THEN h.held + n ELSE h.peak]

\* the handles _post_process_metadata has open at once: one connection per
\* lookup or statement (lines 1775-1798, 1134-1147), and two where
\* apply_primary_keys calls _execute_sql at line 1301 before it closes its own
\* connection of line 1269 at line 1302
PostProcessHandles == {1, 2}

\* _post_process_metadata for layer i when metadata is preserved: its result
\* is not used
PostProcess(i) ==
    IF args.preserve_metadata
    THEN \E ok \in BOOLEAN, n \in PostProcessHandles :
             /\ meta_results' = Append(meta_results, [layer |-> i, ok |-> ok])
             /\ dest_handles' = OpenAndClose(dest_handles, n)
    ELSE UNCHANGED <<meta_results, dest_handles>>

\* lines 2019 and 2052: failed_layers.append; the variant forgets the layer
RecordFailureDropped(failed, i) == failed

RecordFailure(failed, i) == Append(failed, i)

\* lines 2009-2019 and 2042-2052: the result of layer i is counted
Collect(i) ==
    /\ run_pc \in {"sequential", "parallel"}
    /\ layer_state[i] = "exited"
    /\ layer_state' = [layer_state EXCEPT ![i] = "done"]
    /\ IF return_codes[i] = 0
       THEN /\ success_count' = success_count + 1
            /\ PostProcess(i)
            /\ UNCHANGED failed_layers
       ELSE /\ failed_layers' = RecordFailure(failed_layers, i)
            /\ UNCHANGED <<success_count, meta_results, dest_handles>>
    /\ UNCHANGED <<restVars, commands, args, build, dest, run_pc, max_workers, return_codes, started,
                   exit_code>>

\* the head of _convert_with_python_api: a missing driver, a source that
\* does not open or a destination that cannot be created return False
ApiOpen ==
    /\ run_pc = "api"
    /\ \E opened \in BOOLEAN :
           IF opened
           THEN /\ dest' = "new"
                /\ run_pc' = "api_loop"
                /\ dest_handles' = [held |-> 1,
                                    peak |-> IF dest_handles.peak < 1 THEN 1
                                             ELSE dest_handles.peak]
                /\ UNCHANGED exit_code
           ELSE Exit(1) /\ UNCHANGED <<dest, dest_handles>>
    /\ UNCHANGED <<restVars, commands, args, build, max_workers, layer_state, return_codes, started,
                   success_count, failed_layers, meta_results>>

\* what copying one layer through the API comes to: the layer is copied, it
\* is not in the source, CreateLayer returns None, or (where ogr raises
\* exceptions) CreateLayer, CreateField or CreateFeature raises
ApiOutcomes ==
    {"copied", "not_found", "create_failed"}
        \cup (IF build.ogr_exceptions THEN {"raises"} ELSE {})

\* one turn of the loop of lines 2122-2190; nothing catches an exception
\* raised inside it before main does
ApiLayer ==
    /\ run_pc = "api_loop"
    /\ Len(started) < args.n
    /\ LET i == Len(started) + 1
       IN  /\ started' = Append(started, i)
           /\ \E outcome \in ApiOutcomes :
                  CASE outcome = "copied" ->
                         /\ layer_state' = [layer_state EXCEPT ![i] = "done"]
                         /\ success_count' = success_count + 1
                         /\ PostProcess(i)
                         /\ UNCHANGED <<failed_layers, run_pc, exit_code>>
                    [] outcome = "raises" ->
                         /\ Exit(1)
                         /\ layer_state' = [layer_state EXCEPT ![i] = "exited"]
                         /\ UNCHANGED <<success_count, failed_layers, meta_results,
                                        dest_handles>>
                    [] OTHER ->
                         /\ layer_state' = [layer_state EXCEPT ![i] = "done"]
                         /\ failed_layers' = Append(failed_layers, i)
                         /\ UNCHANGED <<success_count, meta_results, run_pc, exit_code,
                                        dest_handles>>
    /\ UNCHANGED <<restVars, commands, args, build, dest, max_workers, return_codes>>

\* _display_conversion_summary, the optimisation, the return of convert and
\* of main: with no layer converted the destination is unlinked
Finish ==
    /\ run_pc \in {"sequential", "parallel", "api_loop"}
    /\ AllDone
    /\ dest' = IF success_count > 0 THEN dest ELSE "none"
    /\ Exit(IF success_count > 0 THEN 0 ELSE 1)
    /\ LET closed == [dest_handles EXCEPT !.held = 0]
       IN  dest_handles' = IF success_count > 0 THEN OpenAndClose(closed, 1) ELSE closed
    /\ UNCHANGED <<restVars, commands, args, build, max_workers, layer_state, return_codes, started,
                   success_count, failed_layers, meta_results>>

RunNext ==
    \/ Prepare
    \/ EnterOgr2ogr
    \/ StartLayer
    \/ \E i \in LayerIds : ProcExit(i)
    \/ \E i \in LayerIds : Collect(i)
    \/ ApiOpen
    \/ ApiLayer
    \/ Finish

SpecRun == RunInit /\ [][RunNext]_vars

(***************************************************************************)
(* ProcessMonitor: one subprocess, the thread that drains its output and   *)
(* the polling loop of wait_for_completion.  Times are in milliseconds,    *)
(* products are rounded down to a whole millisecond.                       *)
(***************************************************************************)
InitialPollInterval == 100
MaxPollInterval == 1000
StableLimit == 10
NoOutputTimeout == 60000
StatusInterval == 30000

\* output lines of the subprocess, as character codes without the newline;
\* 255 stands for bytes the text layer of the pipe cannot decode
LineA == <<65>>
LineB == <<49>>
PaddedA == <<32, 65, 32>>
BlankLine == <<>>
BadLine == <<255>>

Scripts ==
    { <<>>, <<LineA>>, <<LineA, LineB>>, <<PaddedA, BlankLine>>, <<LineA, BadLine>> }

ReturnCodes == {0, 1}

Decodes(l) == \A k \in 1..Len(l) : l[k] # 255

\* time.sleep returns on time, or a minute late where the machine is
\* suspended or overloaded
Latencies == {0, LongSleep}

\* line 139-141 and 135-136: the next value of poll_interval
Shrink(interval) ==
    IF (interval * 9) \div 10 > InitialPollInterval
    THEN (interval * 9) \div 10 ELSE InitialPollInterval

Grow(interval) ==
    IF (interval * 11) \div 10 < MaxPollInterval
    THEN (interval * 11) \div 10 ELSE MaxPollInterval

NextIntervalEager(interval, has_new_output, stable) ==
    IF has_new_output THEN Shrink(interval) ELSE Grow(interval)

NextInterval(interval, has_new_output, stable) ==
    IF has_new_output THEN Shrink(interval)
    ELSE IF stable > StableLimit THEN Grow(interval)
    ELSE interval

\* lines 155-157: the process seems blocked; the variant measures from the
\* start of the wait
IsStalledSinceStart(now, last_output) == now > NoOutputTimeout

IsStalled(now, last_output) == now - last_output > NoOutputTimeout

\* Event.wait(timeout) and Thread.join(timeout) return when what they wait
\* for has happened or when the timeout expires; the variant has no timeout
WaitReturnsUnbounded(happened) == happened

WaitReturns(happened) == TRUE

\* the state after Popen (line 1656), start_monitoring and the first lines
\* of wait_for_completion (lines 112-120)
MonInit ==
    /\ NormIdle
    /\ ParseIdle
    /\ StoreIdle
    /\ ExtractIdle
    /\ RunIdle
    /\ LayerIdle
    /\ KeyIdle
    /\ process = [running |-> TRUE, returncode |-> 0]
    /\ script \in Scripts
    /\ written = <<>>
    /\ stdout = <<>>
    /\ decoded = <<>>
    /\ reader_pc = "reading"
    /\ line = <<>>
    /\ output_lock = "free"
    /\ output_lines = <<>>
    /\ reading_done = FALSE
    /\ mon_pc = "loop"
    /\ sleep_latency \in Latencies
    /\ polls = 0
    /\ current_time = 0
    /\ poll_interval = InitialPollInterval
    /\ stable_count = 0
    /\ last_output_count = 0
    /\ last_output_time = 0
    /\ last_status_time = 0
    /\ stall_log = <<>>
    /\ wait_result = FALSE
    /\ mon_return = NoReturn

monRest == <<normVars, parseVars, storeVars, extractVars, runVars, layerVars, keyVars>>

\* the subprocess writes its next line
ProcWrite ==
    /\ process.running
    /\ script # <<>>
    /\ stdout' = Append(stdout, Head(script))
    /\ written' = Append(written, Head(script))
    /\ script' = Tail(script)
    /\ UNCHANGED <<monRest, process, decoded, reader_pc, line, output_lock, output_lines,
                   reading_done, pollVars>>

\* the subprocess exits, which closes its end of the pipe
ProcExit2 ==
    /\ process.running
    /\ \E rc \in ReturnCodes : process' = [running |-> FALSE, returncode |-> rc]
    /\ UNCHANGED <<monRest, script, written, readerVars, pollVars>>

\* lines 94-98: the loop ended ("done") or raised ("failed"); the finally
\* clause sets the event
ReaderFinally(how) ==
    /\ reader_pc' = how
    /\ reading_done' = TRUE

\* line 83, "for line in self.process.stdout", when the text layer has no
\* decoded line left: it reads what the pipe holds and decodes it, which
\* raises on bytes it cannot decode; at end of file the loop ends
ReaderFill ==
    /\ reader_pc = "reading"
    /\ decoded = <<>>
    /\ IF stdout # <<>>
       THEN IF \A k \in 1..Len(stdout) : Decodes(stdout[k])
            THEN /\ decoded' = stdout
                 /\ stdout' = <<>>
                 /\ UNCHANGED <<reader_pc, reading_done>>
            ELSE /\ ReaderFinally("failed")
                 /\ stdout' = <<>>
                 /\ UNCHANGED decoded
       ELSE /\ ~process.running
            /\ ReaderFinally("done")
            /\ UNCHANGED <<stdout, decoded>>
    /\ UNCHANGED <<monRest, process, script, written, line, output_lock, output_lines,
                   pollVars>>

\* lines 83-86: the next line is stripped; a line that is not empty is to be
\* appended, and the lock is taken for it
ReaderLine ==
    /\ reader_pc = "reading"
    /\ decoded # <<>>
    /\ decoded' = Tail(decoded)
    /\ IF Strip(Head(decoded)) # <<>>
       THEN /\ output_lock = "free"
            /\ output_lock' = "reader"
            /\ line' = Strip(Head(decoded))
            /\ reader_pc' = "locked"
       ELSE UNCHANGED <<output_lock, line, reader_pc>>
    /\ UNCHANGED <<monRest, process, script, written, stdout, output_lines, reading_done,
                   pollVars>>

\* line 87: the append, and the end of the with block
AppendLineFirst(lines, l) == <<l>> \o lines

AppendLine(lines, l) == Append(lines, l)

ReaderAppend ==
    /\ reader_pc = "locked"
    /\ output_lines' = AppendLine(output_lines, line)
    /\ output_lock' = "free"
    /\ reader_pc' = "reading"
    /\ UNCHANGED <<monRest, process, script, written, stdout, decoded, line, reading_done,
                   pollVars>>

\* line 122: the test of the while loop
LoopTest ==
    /\ mon_pc = "loop"
    /\ mon_pc' = IF process.running THEN "sleep" ELSE "wait"
    /\ UNCHANGED <<monRest, process, script, written, readerVars, sleep_latency, polls,
                   current_time, poll_interval, stable_count, last_output_count,
                   last_output_time, last_status_time, stall_log, wait_result, mon_return>>

\* lines 123-162: one turn of the loop, from the sleep on
Poll ==
    /\ mon_pc = "sleep"
    /\ output_lock = "free"
    /\ process.running => (polls < MaxPolls /\ current_time < MaxTime)
    /\ LET now == current_time + poll_interval + sleep_latency
           current_line_count == Len(output_lines)
           has_new_output == current_line_count > last_output_count
           stable == IF has_new_output THEN 0 ELSE stable_count + 1
           output_time == IF has_new_output THEN now ELSE last_output_time
           status == now - last_status_time >= StatusInterval /\ process.running
           stalled == IsStalled(now, output_time) /\ process.running
       IN  /\ current_time' = now
           /\ last_output_count' = IF has_new_output THEN current_line_count
                                   ELSE last_output_count
           /\ stable_count' = stable
           /\ poll_interval' = NextInterval(poll_interval, has_new_output, stable)
           /\ last_status_time' = IF status THEN now ELSE last_status_time
           /\ last_output_time' = IF stalled THEN now ELSE output_time
           /\ stall_log' = IF stalled THEN Append(stall_log, now) ELSE stall_log
    /\ polls' = polls + 1
    /\ mon_pc' = "loop"
    /\ UNCHANGED <<monRest, process, script, written, readerVars, sleep_latency,
                   wait_result, mon_return>>

\* line 165: self.reading_done.wait(timeout=10.0)
WaitReadingDone ==
    /\ mon_pc = "wait"
    /\ WaitReturns(reading_done)
    /\ wait_result' = reading_done
    /\ mon_pc' = "join"
    /\ UNCHANGED <<monRest, process, script, written, readerVars, sleep_latency, polls,
                   current_time, poll_interval, stable_count, last_output_count,
                   last_output_time, last_status_time, stall_log, mon_return>>

\* lines 168-169: self.reader_thread.join(timeout=2.0)
JoinReader ==
    /\ mon_pc = "join"
    /\ WaitReturns(reader_pc \in {"done", "failed"})
    /\ mon_pc' = "return"
    /\ UNCHANGED <<monRest, process, script, written, readerVars, sleep_latency, polls,
                   current_time, poll_interval, stable_count, last_output_count,
                   last_output_time, last_status_time, stall_log, wait_result, mon_return>>

\* lines 171-172: the copy of the buffer, under the lock, and the return
Return ==
    /\ mon_pc = "return"
    /\ output_lock = "free"
    /\ mon_return' = [output_lines |-> output_lines,
                      return_code |-> process.returncode,
                      returned |-> TRUE]
    /\ mon_pc' = "returned"
    /\ UNCHANGED <<monRest, process, script, written, readerVars, sleep_latency, polls,
                   current_time, poll_interval, stable_count, last_output_count,
                   last_output_time, last_status_time, stall_log, wait_result>>

MonNext ==
    \/ ProcWrite
    \/ ProcExit2
    \/ ReaderFill
    \/ ReaderLine
    \/ ReaderAppend
    \/ LoopTest
    \/ Poll
    \/ WaitReadingDone
    \/ JoinReader
    \/ Return

SpecMon == MonInit /\ [][MonNext]_vars

\* the threads are scheduled: the supervisor takes its next step when it can,
\* and the reader leaves the with block it has entered; nothing makes the
\* subprocess write or exit, nor the reader get to the end of the stream
MonFairness ==
    /\ WF_vars(LoopTest)
    /\ WF_vars(Poll)
    /\ WF_vars(WaitReadingDone)
    /\ WF_vars(JoinReader)
    /\ WF_vars(Return)
    /\ WF_vars(ReaderAppend)

SpecMonFair == MonInit /\ [][MonNext]_vars /\ MonFairness

(***************************************************************************)
(* _convert_layer_with_ogr2ogr: from what Popen and the monitor came to,   *)
(* to the result tuple.                                                    *)
(***************************************************************************)
NewLine == 10

\* the text str(e) of an exception raised by Popen or by the monitor
ExceptionText == <<69>>

\* captured line number k
CapturedLine(k) == <<48 + k>>

\* s[start:] of a Python list
SliceFromStart(s, start) == SubSeq(s, 1, IF Len(s) < -start THEN Len(s) ELSE -start)

SliceFrom(s, start) ==
    LET from == IF start < 0
                THEN (IF Len(s) + start > 0 THEN Len(s) + start ELSE 0)
                ELSE (IF start < Len(s) THEN start ELSE Len(s))
    IN  SubSeq(s, from + 1, Len(s))

\* "\n".join(lines)
RECURSIVE JoinLines(_)
JoinLines(lines) ==
    IF lines = <<>> THEN <<>>
    ELSE IF Len(lines) = 1 THEN lines[1]
    ELSE lines[1] \o <<NewLine>> \o JoinLines(Tail(lines))

\* lines 1673-1681
ConvertLayerResult(m) ==
    IF m.raised
    THEN [called |-> TRUE, raised |-> FALSE, success |-> FALSE, error_msg |-> ExceptionText]
    ELSE IF m.return_code = 0
    THEN [called |-> TRUE, raised |-> FALSE, success |-> TRUE, error_msg |-> <<>>]
    ELSE [called |-> TRUE, raised |-> FALSE, success |-> FALSE,
          error_msg |-> JoinLines(SliceFrom(m.output_lines, -10))]

LayerInit ==
    /\ NormIdle
    /\ ParseIdle
    /\ StoreIdle
    /\ ExtractIdle
    /\ RunIdle
    /\ MonIdle
    /\ KeyIdle
    /\ monitored \in
           [raised : BOOLEAN,
            output_lines : {[k \in 1..n |-> CapturedLine(k)] : n \in 0..MaxCaptured},
            return_code : {0, 1, 2, -9}]
    /\ layer_result = NoLayerResult

ConvertLayerWithOgr2ogr ==
    /\ ~layer_result.called
    /\ layer_result' = ConvertLayerResult(monitored)
    /\ UNCHANGED <<normVars, parseVars, storeVars, extractVars, runVars, monVars, monitored,
                   keyVars>>

LayerNext == ConvertLayerWithOgr2ogr

SpecLayer == LayerInit /\ [][LayerNext]_vars

(***************************************************************************)
(* extract_primary_keys.  Names, metadata keys and values are sequences of *)
(* character codes.                                                        *)
(***************************************************************************)
Comma == 44

OgcFid == <<111, 103, 99, 95, 102, 105, 100>>
ObjectId == <<79, 66, 74, 69, 67, 84, 73, 68>>
PrimaryKeyMark == <<80, 82, 73, 77, 65, 82, 89, 95, 75, 69, 89>>
PkMark == <<80, 75, 95>>

\* str.upper() on the letters a..z
Upper(t) == [k \in 1..Len(t) |-> IF t[k] \in 97..122 THEN t[k] - 32 ELSE t[k]]

\* sub in t
Contains(sub, t) ==
    \E k \in 1..(Len(t) - Len(sub) + 1) : SubSeq(t, k, k + Len(sub) - 1) = sub

\* t.split(',')
RECURSIVE SplitFrom(_, _, _)
SplitFrom(t, k, piece) ==
    IF k > Len(t) THEN <<piece>>
    ELSE IF t[k] = Comma THEN <<piece>> \o SplitFrom(t, k + 1, <<>>)
    ELSE SplitFrom(t, k + 1, Append(piece, t[k]))

Split(t) == SplitFrom(t, 1, <<>>)

InList(x, list) == \E k \in 1..Len(list) : list[k] = x

\* lines 1048-1052: the fields of one metadata value are added in order, the
\* empty ones and the ones already listed left out
RECURSIVE AddFields(_, _, _)
AddFields(fields, k, keys) ==
    IF k > Len(fields) THEN keys
    ELSE LET field == Strip(fields[k])
         IN  AddFields(fields, k + 1,
                       IF field # <<>> /\ ~InList(field, keys)
                       THEN Append(keys, field) ELSE keys)

\* line 1044: the key names a primary key
IsKeyDeclaration(key) ==
    Contains(PrimaryKeyMark, Upper(key)) \/ Contains(PkMark, Upper(key))

\* lines 1043-1052: the loop over the metadata, in the order of the keys
RECURSIVE ScanMetadata(_, _, _)
ScanMetadata(metadata, k, keys) ==
    IF k > Len(metadata) THEN keys
    ELSE ScanMetadata(metadata, k + 1,
                      IF IsKeyDeclaration(metadata[k].key) /\ metadata[k].value # <<>>
                      THEN AddFields(Split(metadata[k].value), 1, keys)
                      ELSE keys)

\* line 1061
Fallback(keys) == IF keys # <<>> THEN keys ELSE <<OgcFid>>

\* lines 1023-1061
ExtractPrimaryKeys(l) ==
    IF ~l.datasource \/ ~l.found THEN <<>>
    ELSE LET fid == IF l.fid_column # <<>> THEN <<l.fid_column>> ELSE <<>>
         IN  Fallback(IF l.metadata_raises THEN fid
                      ELSE ScanMetadata(l.metadata, 1, fid))

Entry(key, value) == [key |-> key, value |-> value]

\* the metadata of the layers of the model
LayerMetadatas ==
    { <<>>,
      <<Entry(<<80, 82, 73, 77, 65, 82, 89, 95, 75, 69, 89>>, <<97, 44, 32, 98>>)>>,
      <<Entry(<<112, 107, 95, 102, 105, 101, 108, 100, 115>>, <<97, 44, 44, 97>>)>>,
      <<Entry(<<68, 69, 83, 67, 82, 73, 80, 84, 73, 79, 78>>, <<97>>)>>,
      <<Entry(<<80, 82, 73, 77, 65, 82, 89, 95, 75, 69, 89>>, <<79, 66, 74, 69, 67, 84, 73, 68, 44, 97>>)>>,
      <<Entry(<<80, 82, 73, 77, 65, 82, 89, 95, 75, 69, 89>>, <<>>)>>,
      <<Entry(<<112, 114, 105, 109, 97, 114, 121, 95, 107, 101, 121>>, <<97>>), Entry(<<80, 75, 95, 50>>, <<97, 44, 98>>)>>,
      <<Entry(<<80, 82, 73, 77, 65, 82, 89, 95, 75, 69, 89>>, <<32, 44, 32>>)>> }

KeyInit ==
    /\ NormIdle
    /\ ParseIdle
    /\ StoreIdle
    /\ ExtractIdle
    /\ RunIdle
    /\ MonIdle
    /\ LayerIdle
    /\ key_layer \in [datasource : BOOLEAN, found : BOOLEAN,
                      fid_column : {<<>>, ObjectId},
                      metadata_raises : BOOLEAN, metadata : LayerMetadatas]
    /\ extracted_keys = NoKeys

ExtractKeys ==
    /\ ~extracted_keys.called
    /\ extracted_keys' = [called |-> TRUE, keys |-> ExtractPrimaryKeys(key_layer)]
    /\ UNCHANGED <<normVars, parseVars, storeVars, extractVars, runVars, monVars, layerVars,
                   key_layer>>

KeyNext == ExtractKeys

SpecKeys == KeyInit /\ [][KeyNext]_vars

SpecNorm == NormInit /\ [][NormNext]_vars

(***************************************************************************)
(* C4 and C5: the normalizer                                               *)
(***************************************************************************)
Called == 1..Len(codes)

\* C4 as stated: every single-character code text yields the character's
\* ordinal, and two distinct single characters never yield the same integer.
C4_OrdOfEverySingleChar ==
    /\ \A i \in Called : Len(code_strs[i]) = 1 => codes[i] = code_strs[i][1]
    /\ \A i, j \in Called :
          (Len(code_strs[i]) = 1 /\ Len(code_strs[j]) = 1 /\ code_strs[i] # code_strs[j])
              => codes[i] # codes[j]

\* C4 as amended: a single character that is not a decimal digit yields its
\* ordinal, a decimal digit yields its digit value, and the normalizer is
\* injective over the single characters that are not decimal digits.
C4_OrdOfNonDigitChar ==
    /\ \A i \in Called :
          Len(code_strs[i]) = 1 =>
              codes[i] = IF IsDigit(code_strs[i][1]) THEN code_strs[i][1] - 48
                         ELSE code_strs[i][1]
    /\ \A i, j \in Called :
          (/\ Len(code_strs[i]) = 1 /\ ~IsDigit(code_strs[i][1])
           /\ Len(code_strs[j]) = 1 /\ ~IsDigit(code_strs[j][1])
           /\ code_strs[i] # code_strs[j])
              => codes[i] # codes[j]

\* a digit and a letter have both been normalized
C4_Witness ==
    /\ Len(codes) = 2
    /\ code_strs[1] = <<49>> /\ codes[1] = 1
    /\ code_strs[2] = <<65>> /\ codes[2] = 65

\* C5: a code text that parses as a base-10 integer yields that integer, the
\* ordinal and hash returns are reached only when the parse fails, and every
\* call returns an integer.
C5_NumericVerbatim ==
    /\ \A i \in Called :
          /\ codes[i] \in Int
          /\ IntParses(code_strs[i]) => (codes[i] = IntValue(code_strs[i]) /\ branches[i] = "int")
          /\ branches[i] \in {"ord", "hash"} => ~IntParses(code_strs[i])
          /\ code_strs[i] = <<49>> => codes[i] = 1
          /\ code_strs[i] = <<45, 49>> => codes[i] = 0 - 1
          /\ code_strs[i] = <<49, 49>> => codes[i] = 11
          /\ code_strs[i] = <<32, 49>> => codes[i] = 1

\* a signed number, and a text that went to the hash return
C5_Witness ==
    /\ Len(codes) = 2
    /\ code_strs[1] = <<45, 49>> /\ codes[1] = 0 - 1 /\ branches[1] = "int"
    /\ branches[2] = "hash"


(***************************************************************************)
(* C8: the parser on a text of one named block                             *)
(***************************************************************************)
ExampleBlocks ==
    << [variant |-> "D2", name |-> "Statut",
        values |-> <<CodedValue(<<49>>, "Actif"), CodedValue(<<50>>, "Inactif")>>] >>

\* a coded value as written that has a code and a name
WellFormed(cv) == Strip(cv.code) # <<>> /\ StripText(cv.name) # ""
NormOf(cv) == ConvertCodeToInt(Strip(cv.code))
DescOf(cv) == HtmlUnescape(StripText(cv.name))

OneNamedBlock ==
    /\ parse_pc = "done"
    /\ Len(xml_blocks) = 1
    /\ StripText(xml_blocks[1].name) # ""

WellFormedAt(vs) == {i \in 1..Len(vs) : WellFormed(vs[i])}

\* the last well-formed coded value of the list with normalized code n
LastWith(vs, n) ==
    CHOOSE i \in WellFormedAt(vs) :
        /\ NormOf(vs[i]) = n
        /\ \A j \in WellFormedAt(vs) : NormOf(vs[j]) = n => j <= i

\* the catalog holds the block's name exactly when the block has a
\* well-formed coded value, and nothing but that name
OnlyThatBlock ==
    LET b == xml_blocks[1]
        vs == b.values
    IN  /\ DOMAIN all_domains = IF WellFormedAt(vs) = {} THEN {} ELSE {StripText(b.name)}
        /\ WellFormedAt(vs) # {} =>
               DOMAIN all_domains[StripText(b.name)] = {NormOf(vs[i]) : i \in WellFormedAt(vs)}

\* C8 as stated: the example text yields {"Statut": {1: "Actif", 2: "Inactif"}},
\* and every well-formed coded value (c, d) of a named block yields the entry
\* normalize(c) -> d, nothing else being produced.
C8_EveryCodedValueKept ==
    /\ (parse_pc = "done" /\ xml_blocks = ExampleBlocks) =>
           all_domains = [n \in {"Statut"} |-> [c \in {1, 2} |-> IF c = 1 THEN "Actif" ELSE "Inactif"]]
    /\ OneNamedBlock =>
           /\ OnlyThatBlock
           /\ \A i \in WellFormedAt(xml_blocks[1].values) :
                  all_domains[StripText(xml_blocks[1].name)][NormOf(xml_blocks[1].values[i])]
                      = DescOf(xml_blocks[1].values[i])

\* C8 as amended: the example text yields {"Statut": {1: "Actif", 2: "Inactif"}},
\* and the CodeMap of a named block holds, for every integer n that a
\* well-formed coded value of the block normalizes to, the name of the last
\* such coded value, and nothing else.
C8_LastCodedValueKept ==
    /\ (parse_pc = "done" /\ xml_blocks = ExampleBlocks) =>
           all_domains = [n \in {"Statut"} |-> [c \in {1, 2} |-> IF c = 1 THEN "Actif" ELSE "Inactif"]]
    /\ OneNamedBlock =>
           /\ OnlyThatBlock
           /\ \A n \in {NormOf(xml_blocks[1].values[i]) : i \in WellFormedAt(xml_blocks[1].values)} :
                  all_domains[StripText(xml_blocks[1].name)][n]
                      = DescOf(xml_blocks[1].values[LastWith(xml_blocks[1].values, n)])

\* the example text has been parsed
C8_Witness ==
    /\ parse_pc = "done"
    /\ xml_blocks = ExampleBlocks
    /\ DOMAIN all_domains = {"Statut"}
    /\ all_domains["Statut"][2] = "Inactif"

(***************************************************************************)
(* C2, C3: the overlay tables.                                             *)
(***************************************************************************)
OverlayTables == {AliasTable, DomainTable}

\* C2 as stated: after apply_all_metadata has run with no statement failing,
\* both overlay tables exist, whether or not the alias and domain maps were
\* empty
C2_BothOverlayTablesExist ==
    (last_apply.called /\ last_apply.clean) => OverlayTables \subseteq db.tables

AliasKey(r) == <<r.table_name, r.field_name>>
DomainKey(r) == <<r.table_name, r.field_name, r.code>>

KeysUnique ==
    /\ \A r1, r2 \in db.alias_rows : AliasKey(r1) = AliasKey(r2) => r1 = r2
    /\ \A r1, r2 \in db.domain_rows : DomainKey(r1) = DomainKey(r2) => r1 = r2

SameRows ==
    /\ db'.alias_rows = db.alias_rows
    /\ db'.domain_rows = db.domain_rows

\* C3: after any sequence of applications each overlay table holds at most
\* one row per composite key, and applying to a table the metadata that was
\* just applied to it leaves both overlay tables with the same rows
C3_OverlayIdempotent ==
    /\ []KeysUnique
    /\ [][last_apply'.again => SameRows]_vars

\* the same aliases and coded values were applied twice in a row, and rows
\* of an earlier application are there as well
C3_Witness ==
    /\ last_apply.again /\ last_apply.ok
    /\ last_apply.metadata.field_aliases # EmptyMap
    /\ last_apply.metadata.domain_values # EmptyMap
    /\ \E r \in db.alias_rows : r.table_name # last_apply.table_name
    /\ \E r \in db.domain_rows : r.table_name = last_apply.table_name

(***************************************************************************)
(* C6, C7: the waterfall and the caches of the extractor.                  *)
(***************************************************************************)
CatalogHit(field) == DomainNameOf(field) \in DOMAIN extract_result.all_domains

\* C6: for every field of the layer whose domain name has an entry in the
\* loaded catalog, the field's result is that entry and none of the tiers 2
\* to 5 was called for the field
C6_CatalogHitStopsWaterfall ==
    extract_result.called =>
        \A i \in 1..Len(extract_result.fields) :
            LET field == extract_result.fields[i]
            IN  CatalogHit(field) =>
                    /\ field.name \in DOMAIN extract_result.domains
                    /\ extract_result.domains[field.name] =
                           extract_result.all_domains[DomainNameOf(field)]
                    /\ extract_result.calls[field.name] = <<>>

\* a layer with a field found in the catalog, for which every lower tier
\* holds something as well, next to a field that went down the tiers
C6_Witness ==
    /\ extract_result.called
    /\ \E i, j \in 1..Len(extract_result.fields) :
           /\ CatalogHit(extract_result.fields[i])
           /\ extract_result.fields[i].yields = {2, 3, 4, 5}
           /\ ~CatalogHit(extract_result.fields[j])
           /\ Len(extract_result.calls[extract_result.fields[j].name]) > 1

\* C7: every call of the loader after the first returns the catalog path and
\* the catalog of the first call, and lists no directory and reads no file:
\* the counters stand where the first call left them
C7_LoadIsCached ==
    \A i \in 2..Len(load_returns) : load_returns[i] = load_returns[1]

\* the loader was called again after a first call that found a catalog file
\* and failed to read it
C7_Witness ==
    /\ Len(load_returns) >= 2
    /\ load_returns[1].catalog # ""
    /\ load_returns[1].domains = EmptyMap
    /\ load_returns[1].dir_scans = 1

(***************************************************************************)
(* C1, C9, C10: the conversion run.                                        *)
(***************************************************************************)
\* C1: when more than one worker is asked for and the list holds more than
\* one layer, at most one conversion subprocess is running at any moment,
\* the layers are started in list order, and a layer is started only after
\* the subprocess of the layer before it has exited
C1_OneSubprocessAtATime ==
    (args.workers > 1 /\ args.n > 1) =>
        /\ Cardinality(Running) <= 1
        /\ \A k \in 1..Len(started) : started[k] = k
        /\ \A k \in 2..Len(started) : layer_state[k - 1] \in {"exited", "done"}

\* two workers asked for, two layers: the second subprocess is running, the
\* first has exited with code 0 and was counted
C1_Witness ==
    /\ args.workers > 1 /\ args.n > 1
    /\ run_pc = "sequential"
    /\ Len(started) = 2
    /\ layer_state[1] = "done" /\ return_codes[1] = 0
    /\ layer_state[2] = "running"

\* C9 as stated: the process exits with code 0 exactly when at least one
\* layer was converted, and with metadata preserved every layer whose
\* metadata was post-processed stays counted as converted, whatever the
\* post-processing returned
C9_ExitCodeIffConverted ==
    run_pc = "exited" =>
        /\ (exit_code = 0) <=> (success_count > 0)
        /\ args.preserve_metadata => Len(meta_results) = success_count
        /\ \A k \in 1..Len(meta_results), f \in 1..Len(failed_layers) :
               meta_results[k].layer # failed_layers[f]

\* C10 as stated: a run that ends with no layer converted leaves no
\* destination file that it created
C10_NoDestinationAfterZeroSuccess ==
    (run_pc = "exited" /\ success_count = 0) => dest # "new"

(***************************************************************************)
(* C11: an existing destination without overwrite.                         *)
(***************************************************************************)
KeepsOldFile == (dest = "old" /\ ~args.overwrite) => dest' = "old"

\* C11: while the destination from before the run is there and overwrite is
\* off, no subprocess was started and no layer copied, the run can only end
\* with exit code 1, and no step deletes or writes the file
C11_ExistingOutputRefused ==
    /\ []((dest = "old" /\ ~args.overwrite) =>
              /\ started = <<>>
              /\ success_count = 0
              /\ run_pc \in {"idle", "start", "exited"}
              /\ run_pc = "exited" => exit_code = 1)
    /\ [][KeepsOldFile]_vars

\* a run on a usable source with layers has ended on the existing file
C11_Witness ==
    /\ run_pc = "exited" /\ exit_code = 1
    /\ dest = "old" /\ ~args.overwrite
    /\ args.source_ok /\ args.n > 0

(***************************************************************************)
(* C12: failing layers on the ogr2ogr path.                                *)
(***************************************************************************)
OgrPath == args.use_ogr2ogr /\ build.ogr2ogr_available

\* the run has ended and had passed _prepare_conversion
EndedAfterPrepare ==
    /\ run_pc = "exited"
    /\ args.source_ok /\ args.n > 0
    /\ ~(dest = "old" /\ ~args.overwrite)

\* every layer was started once, in list order; the failure list holds each
\* layer whose subprocess failed or could not be started once, and nothing
\* else; the counts add up to the number of layers
EveryLayerAttemptedOnce ==
    /\ started = [k \in LayerIds |-> k]
    /\ \A i \in LayerIds :
           Cardinality({f \in 1..Len(failed_layers) : failed_layers[f] = i})
               = IF return_codes[i] # 0 THEN 1 ELSE 0
    /\ success_count + Len(failed_layers) = args.n

\* C12 as stated: whenever a run on the ogr2ogr path ends, every layer was
\* attempted once and the counts add up
C12_EveryRunAttemptsAll == (EndedAfterPrepare /\ OgrPath) => EveryLayerAttemptedOnce

\* C12, for a worker count of at least 1: a run on the ogr2ogr path ends
\* with every layer attempted once, each failed layer recorded once, and
\* success count plus failure count equal to the number of layers
C12_FailuresDoNotStopRun ==
    (EndedAfterPrepare /\ OgrPath /\ args.workers >= 1) => EveryLayerAttemptedOnce

\* the first of two layers failed, the second was converted all the same
C12_Witness ==
    /\ EndedAfterPrepare /\ OgrPath /\ args.workers >= 1
    /\ args.n = 2
    /\ failed_layers = <<1>>
    /\ success_count = 1

(***************************************************************************)
(* C13: failing layers on the API path.                                    *)
(***************************************************************************)
\* C13 as stated: a run on the API path that has begun to copy layers ends
\* with every layer of the list attempted, each one either counted or
\* recorded as failed, through the summary
C13_ApiFailuresDoNotStopRun ==
    (EndedAfterPrepare /\ ~OgrPath /\ started # <<>>) =>
        /\ started = [k \in LayerIds |-> k]
        /\ AllDone
        /\ success_count + Len(failed_layers) = args.n

(***************************************************************************)
(* C14: the program never has more than one handle on the destination      *)
(* open at a time: no operation on the destination runs through one handle *)
(* while another handle is still held.                                     *)
(***************************************************************************)
C14_OneDestinationHandleAtATime == dest_handles.peak <= 1

(***************************************************************************)
(* C15: a conversion whose subprocess exits with a code other than 0       *)
(* returns a failure whose diagnostic is the last 10 captured lines (all   *)
(* of them when there are fewer); exit code 0 returns a success with an    *)
(* empty diagnostic; an error raised while the subprocess is started or    *)
(* run returns a failure and is not raised to the caller.                  *)
(***************************************************************************)
LastTen(lines) ==
    [k \in 1..(IF Len(lines) > 10 THEN 10 ELSE Len(lines)) |->
        lines[k + (IF Len(lines) > 10 THEN Len(lines) - 10 ELSE 0)]]

C15_LayerResult ==
    layer_result.called =>
        /\ ~layer_result.raised
        /\ monitored.raised => ~layer_result.success
        /\ (~monitored.raised /\ monitored.return_code = 0) =>
               (layer_result.success /\ layer_result.error_msg = <<>>)
        /\ (~monitored.raised /\ monitored.return_code # 0) =>
               /\ ~layer_result.success
               /\ layer_result.error_msg = JoinLines(LastTen(monitored.output_lines))

C15_Witness ==
    /\ layer_result.called
    /\ ~monitored.raised
    /\ monitored.return_code # 0
    /\ Len(monitored.output_lines) = 12
    /\ layer_result.error_msg =
           <<51, 10, 52, 10, 53, 10, 54, 10, 55, 10, 56, 10, 57, 10, 58, 10, 59, 10, 60>>

(***************************************************************************)
(* C16: wait_for_completion returns only after the subprocess has exited;  *)
(* once the subprocess has exited it returns in the end, also when the     *)
(* drain thread never signals that it is done; and no step of the          *)
(* supervisor changes the state of the subprocess.                         *)
(***************************************************************************)
PastLoop == mon_pc \in {"wait", "join", "return", "returned"}

SupervisorStep == pollVars' # pollVars

C16_SupervisorLiveness ==
    /\ [](PastLoop => ~process.running)
    /\ (~process.running) ~> (mon_pc = "returned")
    /\ [][SupervisorStep => process' = process]_vars

C16_Witness ==
    /\ mon_pc = "returned"
    /\ polls > 0
    /\ ~reading_done
    /\ reader_pc = "reading"

(***************************************************************************)
(* C17: the poll interval starts at 100 ms and stays between 100 ms and    *)
(* 1 s; a poll that sees new lines sets the idle counter to 0 and takes    *)
(* nine tenths of the interval, not below 100 ms; a poll that sees none    *)
(* adds one to the counter and takes eleven tenths of the interval, not    *)
(* above 1 s, only when the counter is then above 10, and leaves the       *)
(* interval alone otherwise.                                               *)
(***************************************************************************)
SeesNewLines == Len(output_lines) > last_output_count

NineTenths == (poll_interval * 9) \div 10

ElevenTenths == (poll_interval * 11) \div 10

PollStep ==
    IF SeesNewLines
    THEN /\ stable_count' = 0
         /\ poll_interval' = IF NineTenths < 100 THEN 100 ELSE NineTenths
    ELSE /\ stable_count' = stable_count + 1
         /\ poll_interval' = IF stable_count' > 10
                             THEN (IF ElevenTenths > 1000 THEN 1000 ELSE ElevenTenths)
                             ELSE poll_interval

C17_AdaptivePolling ==
    /\ [](mon_pc # "idle" =>
              /\ poll_interval >= 100
              /\ poll_interval <= 1000
              /\ polls = 0 => poll_interval = 100)
    /\ [][polls' # polls => PollStep]_vars

C17_Witness ==
    /\ last_output_count > 0
    /\ stable_count > 10
    /\ poll_interval = 1000

(***************************************************************************)
(* C18: the stall message is logged only while the subprocess runs and     *)
(* only when more than no_output_timeout has passed since the reference    *)
(* point, which is the last poll that saw new lines or the last stall      *)
(* message; logging it moves the reference point to now, so two stall      *)
(* messages in a row are more than no_output_timeout apart; a poll that    *)
(* sees new lines moves the reference point to now as well.                *)
(***************************************************************************)
LogsStall == stall_log' # stall_log

LastStall == stall_log[Len(stall_log)]

C18_StallIndication ==
    /\ [][LogsStall =>
              /\ process.running
              /\ ~SeesNewLines
              /\ current_time' - last_output_time > NoOutputTimeout
              /\ stall_log' = Append(stall_log, current_time')
              /\ last_output_time' = current_time'
              /\ stall_log # <<>> => current_time' - LastStall > NoOutputTimeout]_vars
    /\ [][(polls' # polls /\ SeesNewLines) => last_output_time' = current_time']_vars

C18_Witness ==
    /\ Len(stall_log) = 2
    /\ last_output_count > 0
    /\ last_output_time = LastStall

RECURSIVE NonBlankStripped(_)
NonBlankStripped(lines) ==
    IF lines = <<>> THEN <<>>
    ELSE IF Strip(Head(lines)) = <<>> THEN NonBlankStripped(Tail(lines))
    ELSE <<Strip(Head(lines))>> \o NonBlankStripped(Tail(lines))

IsPrefix(s, t) == Len(s) <= Len(t) /\ s = SubSeq(t, 1, Len(s))

Declared ==
    key_layer.datasource /\ key_layer.found /\ ~key_layer.metadata_raises
        /\ \E k \in 1..Len(key_layer.metadata) :
               IsKeyDeclaration(key_layer.metadata[k].key)

HasRowId == key_layer.datasource /\ key_layer.found /\ key_layer.fid_column # <<>>

C20_PrimaryKeysNeverEmpty ==
    extracted_keys.called =>
        LET keys == extracted_keys.keys
        IN  /\ keys # <<>>
            /\ HasRowId => keys[1] = key_layer.fid_column
            /\ \A j, k \in 1..Len(keys) : keys[j] = keys[k] => j = k
            /\ ~Declared => keys = (IF HasRowId THEN <<key_layer.fid_column>> ELSE <<OgcFid>>)

(***************************************************************************)
(* C21: apply_all_metadata calls the four applications, aliases, domain    *)
(* values, primary keys and triggers, in that order, whether or not an     *)
(* earlier one failed; it returns true exactly when every one of them      *)
(* reported success; and no application, failed or not, changes the rows   *)
(* of the converted layer table.                                           *)
(***************************************************************************)
FourApplications == <<"field_aliases", "domain_values", "primary_keys", "triggers">>

C21_OverlayAggregation ==
    /\ [](last_apply.called =>
              /\ [k \in 1..Len(last_apply.reports) |-> last_apply.reports[k].op]
                     = FourApplications
              /\ last_apply.ok <=>
                     \A k \in 1..Len(last_apply.reports) : last_apply.reports[k].ok)
    /\ [][db'.rows = db.rows /\ db'.tables \cap LayerTables = db.tables \cap LayerTables]_vars

C21_Witness ==
    /\ last_apply.called
    /\ ~last_apply.ok
    /\ Len(last_apply.reports) = 4
    /\ ~last_apply.reports[1].ok
    /\ last_apply.reports[3].ok
    /\ db.rows = LayerRows

(***************************************************************************)
(* C22: the locator returns the .gdbtable file with the highest score      *)
(* among those whose score is above 20, the first of them in sorted order  *)
(* when several share that score, and none when no score is above 20,      *)
(* when the directory has no .gdbtable file or is not there; a file whose  *)
(* reading raises is skipped and the scan goes on.                         *)
(***************************************************************************)
ScoreOf(file) == IF file.readable THEN FileContainsDomains(file).score ELSE 0

Candidates == {k \in 1..Len(gdb.files) : ScoreOf(gdb.files[k]) > 20}

ExpectedCatalog ==
    IF ~gdb.is_dir \/ Candidates = {} THEN ""
    ELSE LET k == CHOOSE c \in Candidates :
                      \A o \in Candidates :
                          \/ ScoreOf(gdb.files[o]) < ScoreOf(gdb.files[c])
                          \/ (ScoreOf(gdb.files[o]) = ScoreOf(gdb.files[c]) /\ c <= o)
         IN  gdb.files[k].name

C22_CatalogSelection == domains_cache.loaded => catalog_cache = ExpectedCatalog

C22_Witness ==
    /\ domains_cache.loaded
    /\ Cardinality(Candidates) = 2
    /\ \A c \in Candidates : ScoreOf(gdb.files[c]) = 25
    /\ catalog_cache = "a00000004.gdbtable"

(***************************************************************************)
(* C23: a block with no domain name or with no valid coded value           *)
(* contributes no entry, so every CodeMap of the result is non-empty, and  *)
(* when several blocks carry the same domain name the result holds exactly *)
(* the CodeMap of the one that occurs latest in the text.                  *)
(***************************************************************************)
\* the CodeMap of one block, parsed on its own
BlockCodeMap(b) == ParseSingleDomain(BlockElems(b)).coded_values

\* the blocks of the text that have a name and a valid coded value
Contributing(bs) ==
    {k \in 1..Len(bs) : StripText(bs[k].name) # "" /\ BlockCodeMap(bs[k]) # EmptyMap}

\* the last contributing block of the text named n
LastNamed(bs, n) ==
    CHOOSE k \in Contributing(bs) :
        /\ StripText(bs[k].name) = n
        /\ \A j \in Contributing(bs) : StripText(bs[j].name) = n => j <= k

C23_LaterBlockWins ==
    parse_pc = "done" =>
        /\ \A n \in DOMAIN all_domains : all_domains[n] # EmptyMap
        /\ DOMAIN all_domains \subseteq {StripText(xml_blocks[k].name) : k \in Contributing(xml_blocks)}
        /\ \A n \in DOMAIN all_domains :
               Cardinality({k \in Contributing(xml_blocks) : StripText(xml_blocks[k].name) = n}) = 2
                   => all_domains[n] = BlockCodeMap(xml_blocks[LastNamed(xml_blocks, n)])

(***************************************************************************)
(* C24: on the ogr2ogr path no metadata overlay is written and no          *)
(* optimisation is run while a conversion subprocess is running: the       *)
(* overlay of a layer is written only when its subprocess exited with 0,   *)
(* and before the subprocess of the next layer is started; the             *)
(* optimisation is run only when every layer has been dealt with.          *)
(***************************************************************************)
OnOgrLoop == run_pc \in {"sequential", "parallel"}

\* _post_process_metadata runs in this step
OverlayStep == OnOgrLoop /\ meta_results' # meta_results

\* a subprocess is started, or found not to start, in this step
StartStep == OnOgrLoop /\ started' # started

\* the summary and _optimize_spatialite_database run in this step
OptimiseStep == OnOgrLoop /\ run_pc' = "exited"

C24_OverlayAfterSubprocess ==
    [][/\ OverlayStep =>
              /\ Running = {}
              /\ LET i == meta_results'[Len(meta_results')].layer
                 IN  /\ layer_state[i] = "exited" /\ return_codes[i] = 0
                     /\ layer_state'[i] = "done"
       /\ StartStep =>
              \A j \in LayerIds :
                  (j <= Len(started) /\ return_codes[j] = 0 /\ args.preserve_metadata)
                      => \E k \in 1..Len(meta_results) : meta_results[k].layer = j
       /\ OptimiseStep => (AllDone /\ Running = {})]_vars

C24_Witness ==
    /\ run_pc = "sequential"
    /\ args.n = 2
    /\ layer_state[2] = "running"
    /\ Len(meta_results) = 1
    /\ meta_results[1].layer = 1

(***************************************************************************)
(* C25: ogr2ogr is invoked exactly once per layer, the first layer of the  *)
(* list in create or overwrite mode and every later layer in update mode,  *)
(* so that an update invocation is only ever issued against a destination  *)
(* that an earlier invocation of the same run has created.                 *)
(***************************************************************************)
\* the invocations of layer i so far
InvocationsOf(i) == {k \in 1..Len(commands) : commands[k].layer = i}

C25_UpdateOnlyOnCreated ==
    /\ \A i \in LayerIds : Cardinality(InvocationsOf(i)) <= 1
    /\ (OgrPath /\ run_pc = "exited" /\ AllDone) =>
           \A i \in LayerIds : Cardinality(InvocationsOf(i)) = 1
    /\ \A k \in 1..Len(commands) :
           /\ commands[k].layer = 1 => commands[k].mode \in {"create", "overwrite"}
           /\ commands[k].layer > 1 => commands[k].mode = "update"
           /\ commands[k].mode = "update" => commands[k].dest = "new"

(***************************************************************************)
(* C26: apply_primary_keys is a no-op that reports success when the key is *)
(* a single native identifier column (ogc_fid, fid, OBJECTID); for any     *)
(* other non-empty column list on an existing table it creates a unique    *)
(* index over exactly those columns, in their order, under a name of at    *)
(* most 50 characters with no '-' and no '.'; it reports failure and       *)
(* creates nothing when the table does not exist, and reports success      *)
(* without any action when the list is empty.                              *)
(***************************************************************************)
\* apply_all_metadata returns in this step
ApplyStep == last_apply' # last_apply

KeysApplied == last_apply'.metadata.primary_keys

KeysReport == last_apply'.reports[3].ok

IsNativeKey(keys) == Len(keys) = 1 /\ keys[1] \in NativeKeys

HasNo(s, c) == \A k \in 1..Len(s) : SubSeq(s, k, k) # c

C26_PrimaryKeyApplication ==
    [][ApplyStep =>
         /\ KeysApplied = <<>> => (KeysReport /\ db'.indexes = db.indexes)
         /\ (KeysApplied # <<>> /\ last_apply'.table_name \notin db'.tables) =>
                (~KeysReport /\ db'.indexes = db.indexes)
         /\ (IsNativeKey(KeysApplied) /\ last_apply'.table_name \in db'.tables) =>
                (KeysReport /\ db'.indexes = db.indexes)
         /\ (/\ KeysApplied # <<>>
             /\ ~IsNativeKey(KeysApplied)
             /\ last_apply'.table_name \in db'.tables) =>
                \E x \in db'.indexes :
                    /\ x.table = last_apply'.table_name
                    /\ x.columns = KeysApplied
                    /\ Len(x.name) <= MaxIndexName
                    /\ HasNo(x.name, "-") /\ HasNo(x.name, ".")]_vars

(***************************************************************************)
(* C27: for every field of the layer, with or without a domain name, for   *)
(* which the catalog lookup yields nothing, the tiers 2, 3, 4 and 5 are    *)
(* tried in that order, each only when every earlier one came back empty,  *)
(* so that raw-data sampling is reached whenever tiers 1 to 4 recovered    *)
(* nothing, and the field's result is that of the first tier that yielded  *)
(* a non-empty CodeMap.  (Tier 4 exists only where the field definition    *)
(* has GetMetadata.)                                                       *)
(***************************************************************************)
\* the tiers that would yield something for the field in this build
Yielding(field) ==
    IF gdal.has_field_metadata THEN field.yields ELSE field.yields \ {4}

\* the first tier that yields something, 5 when none does
StopTier(field) ==
    IF Yielding(field) = {} THEN 5
    ELSE CHOOSE t \in Yielding(field) : \A u \in Yielding(field) : t <= u

\* the tiers from 2 up to t that this build has, in order
RECURSIVE TiersUpTo(_)
TiersUpTo(t) ==
    IF t < 2 THEN <<>>
    ELSE IF t = 4 /\ ~gdal.has_field_metadata THEN TiersUpTo(t - 1)
    ELSE Append(TiersUpTo(t - 1), t)

WaterfallDone(field) ==
    /\ extract_result.calls[field.name] = TiersUpTo(StopTier(field))
    /\ IF Yielding(field) = {} THEN field.name \notin DOMAIN extract_result.domains
       ELSE /\ field.name \in DOMAIN extract_result.domains
            /\ extract_result.domains[field.name] = TierMap(StopTier(field))

C27_WaterfallForEveryField ==
    extract_result.called =>
        \A i \in 1..Len(extract_result.fields) :
            ~CatalogHit(extract_result.fields[i]) => WaterfallDone(extract_result.fields[i])

(***************************************************************************)
(* C28: two distinct code texts among the coded values of one domain block *)
(* get distinct integer codes, so the CodeMap of the block has one entry   *)
(* per distinct code text and no description is overwritten by that of     *)
(* another code, a numeric code next to a letter code included.            *)
(***************************************************************************)
\* the distinct code texts of the well-formed coded values of a list
CodeTexts(vs) == {Strip(vs[i].code) : i \in WellFormedAt(vs)}

C28_DistinctCodesPerDomain ==
    OneNamedBlock =>
        LET vs == xml_blocks[1].values
        IN  /\ \A i, j \in WellFormedAt(vs) :
                   Strip(vs[i].code) # Strip(vs[j].code) => NormOf(vs[i]) # NormOf(vs[j])
            /\ WellFormedAt(vs) # {} =>
                   Cardinality(DOMAIN all_domains[StripText(xml_blocks[1].name)])
                       = Cardinality(CodeTexts(vs))

(***************************************************************************)
(* C29: in a text of several domain blocks, of the primary and the legacy  *)
(* variant in any mix, every block is extracted on its own: each named     *)
(* block with a valid coded value is in the result under its name, and the *)
(* CodeMap stored for a name holds only coded values that stand inside a   *)
(* block of that name, never those of a neighbouring block.                *)
(***************************************************************************)
\* the entries the blocks named n hold between them
EntriesOfName(bs, n) ==
    UNION {{<<c, BlockCodeMap(bs[k])[c]>> : c \in DOMAIN BlockCodeMap(bs[k])} :
               k \in {j \in Contributing(bs) : StripText(bs[j].name) = n}}

C29_BlocksIndependent ==
    parse_pc = "done" =>
        /\ \A k \in Contributing(xml_blocks) :
               StripText(xml_blocks[k].name) \in DOMAIN all_domains
        /\ \A n \in DOMAIN all_domains :
               \A c \in DOMAIN all_domains[n] :
                   <<c, all_domains[n][c]>> \in EntriesOfName(xml_blocks, n)

(***************************************************************************)
(* C30: every connection to the destination that an operation of the       *)
(* applier opens is closed by the time the operation returns, on the       *)
(* success path and on every failure path, so the applier holds no open    *)
(* connection between operations.                                          *)
(***************************************************************************)
C30_NoLeakedHandle == last_apply.called => last_apply.unclosed = 0

=============================================================================
